---- MODULE Spec2Model ----
(***************************************************************************)
(* Model of the job-application coordination engine of                     *)
(* allocation-crawler-service (entities.ts): the Redis keyspace, the       *)
(* entity store operations and the lock-protected createRun / updateRun    *)
(* state machine.                                                          *)
(*                                                                         *)
(* Strings that the code joins or splits on ':' are represented as the     *)
(* sequence of their ':'-separated segments, so `${a}:${b}` is a \o b and  *)
(* s.split(":") is s itself.  A stored tags field ("x,y") is the sequence  *)
(* of its ','-separated segments in the same way.                          *)
(***************************************************************************)
EXTENDS Integers, Sequences, FiniteSets, TLC

\* ───────────── bounds ─────────────
NumBoards == 2
NumJobIds == 1
NumRuns == 2
NumProcs == 2
MaxClients == 2
MaxCmds == 2

BoardPool == <<"a", "b", "c", "d">>
JobIdPool == <<"1", "2", "3">>
RunPool == <<"r1", "r2", "r3", "r4">>

Boards == {<<BoardPool[i]>> : i \in 1..NumBoards}
JobIds == {<<JobIdPool[i]>> : i \in 1..NumJobIds}
RunIds == {<<RunPool[i]>> : i \in 1..NumRuns}
Procs == 1..NumProcs

\* ───────────── program constants ─────────────
JobStatuses == {"discovered", "queued", "applied", "found", "rejected", "expired"}
RunStatuses == {"pending", "submitted", "success", "failed"}
APPLICABLE_STATUSES == {"discovered", "queued"}
LOCK_TTL_SECONDS == 300

\* ───────────── key helpers (K) ─────────────
K_board(id) == <<"board">> \o id
K_boardsIdx == <<"idx", "boards">>
K_job(board, jobId) == <<"job">> \o board \o jobId
K_boardJobsIdx(board) == <<"idx", "board_jobs">> \o board
K_jobStatusIdx(status) == <<"idx", "job_status", status>>
K_tagIdx(tag) == <<"idx", "tag", tag>>
K_run(runId) == <<"run">> \o runId
K_jobRunsIdx(jobId) == <<"idx", "job_runs">> \o jobId
K_runsAll == <<"idx", "runs">>
K_applyLock(board, jobId) == <<"lock", "apply">> \o board \o jobId

\* `${board}:${jobId}`
CK(board, jobId) == board \o jobId

\* ───────────── the store: Redis commands ─────────────
\* db = [hashes: key -> (field -> value), sets: key -> set, strs: key -> value]
Restrict(f, S) == [x \in S |-> f[x]]

EmptyDb == [hashes |-> <<>>, sets |-> <<>>, strs |-> <<>>]

Exists(db, key) ==
  key \in DOMAIN db.hashes \/ key \in DOMAIN db.sets \/ key \in DOMAIN db.strs

HGetAll(db, key) == IF key \in DOMAIN db.hashes THEN db.hashes[key] ELSE <<>>

HSet(db, key, fields) ==
  [db EXCEPT !.hashes = (key :> (fields @@ HGetAll(db, key))) @@ @]

SMembers(db, key) == IF key \in DOMAIN db.sets THEN db.sets[key] ELSE {}

SAdd(db, key, m) ==
  [db EXCEPT !.sets = (key :> (SMembers(db, key) \cup {m})) @@ @]

\* a set that becomes empty no longer exists as a key
SRem(db, key, m) ==
  LET rest == SMembers(db, key) \ {m}
  IN IF rest = {}
       THEN [db EXCEPT !.sets = Restrict(@, DOMAIN @ \ {key})]
       ELSE [db EXCEPT !.sets = (key :> rest) @@ @]

Del(db, key) ==
  [hashes |-> Restrict(db.hashes, DOMAIN db.hashes \ {key}),
   sets |-> Restrict(db.sets, DOMAIN db.sets \ {key}),
   strs |-> Restrict(db.strs, DOMAIN db.strs \ {key})]

Get(db, key) == IF key \in DOMAIN db.strs THEN db.strs[key] ELSE <<>>

\* SetNX without NX: a plain SET that overwrites an existing key (the fault
\* that C1 excludes)
SetNX_overwrite(db, key, value) ==
  [ok |-> TRUE, db |-> [db EXCEPT !.strs = (key :> value) @@ @]]

\* SET key value EX ttl NX: [ok, db]
SetNX(db, key, value) ==
  IF Exists(db, key)
    THEN [ok |-> FALSE, db |-> db]
    ELSE [ok |-> TRUE, db |-> [db EXCEPT !.strs = (key :> value) @@ @]]

\* a hash field read as data.f is truthy when present and non-empty
\* (ids and tags are segment sequences, the other fields plain strings)
HasSeq(data, f) == f \in DOMAIN data /\ data[f] # <<>>

HasStr(data, f) == f \in DOMAIN data /\ data[f] # ""

\* left fold of a command over the elements of a sequence
RECURSIVE FoldSeq(_, _, _)
FoldSeq(Op(_, _), db, seq) ==
  IF seq = <<>> THEN db ELSE FoldSeq(Op, Op(db, Head(seq)), Tail(seq))

RECURSIVE SetToSeq(_)
SetToSeq(S) ==
  IF S = {} THEN <<>>
  ELSE LET x == CHOOSE y \in S : TRUE IN <<x>> \o SetToSeq(S \ {x})

\* ───────────── tag classifier (external) ─────────────
NumTitles == 2

TitlePool == <<"Quant Trader", "Chef", "Quant Engineer">>

Titles == {TitlePool[i] : i \in 1..NumTitles}

extractTags(title, department) ==
  CASE title = "Quant Trader" -> <<"quant">>
    [] title = "Quant Engineer" -> <<"quant", "engineering">>
    [] OTHER -> <<>>

\* ───────────── boards ─────────────
addBoard(d, id, company, ats) ==
  LET board == [id |-> id, company |-> company, ats |-> ats, created_at |-> "now"]
      d1 == HSet(d, K_board(id), board)
      d2 == SAdd(d1, K_boardsIdx, id)
  IN [db |-> d2, ret |-> board]

\* the pipeline commands queued for one job of the board being removed
removeBoardJob(d, pipe, id, jobId) ==
  LET jobKey == K_job(id, jobId)
      jobData == HGetAll(d, jobKey)
      p1 == IF HasStr(jobData, "status")
              THEN SRem(pipe, K_jobStatusIdx(jobData.status), CK(id, jobId))
              ELSE pipe
      p2 == IF HasSeq(jobData, "tags")
              THEN FoldSeq(LAMBDA p, tag : SRem(p, K_tagIdx(tag), CK(id, jobId)),
                           p1, jobData.tags)
              ELSE p1
  IN Del(p2, jobKey)

removeBoard(d, id) ==
  IF ~Exists(d, K_board(id)) THEN [db |-> d, ret |-> FALSE]
  ELSE
    LET jobIds == SMembers(d, K_boardJobsIdx(id))
        d1 == FoldSeq(LAMBDA p, jobId : removeBoardJob(d, p, id, jobId),
                      d, SetToSeq(jobIds))
        d2 == Del(d1, K_boardJobsIdx(id))
        d3 == Del(d2, K_board(id))
        d4 == SRem(d3, K_boardsIdx, id)
    IN [db |-> d4, ret |-> TRUE]

\* ───────────── jobs ─────────────
\* hset of the full job record plus its index memberships (one pipeline)
addJobPipe(d, job) ==
  LET tags == extractTags(job.title, job.department)
      ck == CK(job.board, job.job_id)
      d1 == HSet(d, K_job(job.board, job.job_id),
                 [job_id |-> job.job_id, board |-> job.board, title |-> job.title,
                  url |-> job.url, location |-> job.location,
                  department |-> job.department, tags |-> tags,
                  status |-> "discovered", discovered_at |-> "now",
                  updated_at |-> "now"])
      d2 == SAdd(d1, K_boardJobsIdx(job.board), job.job_id)
      d3 == SAdd(d2, K_jobStatusIdx("discovered"), ck)
  IN FoldSeq(LAMBDA p, tag : SAdd(p, K_tagIdx(tag), ck), d3, tags)

FullJob(job) ==
  [job_id |-> job.job_id, board |-> job.board, title |-> job.title,
   url |-> job.url, location |-> job.location, department |-> job.department,
   tags |-> extractTags(job.title, job.department), status |-> "discovered",
   discovered_at |-> "now", updated_at |-> "now"]

addJob(d, job) == [db |-> addJobPipe(d, job), ret |-> FullJob(job)]

\* addJobsBulk without the exists check (the fault that C12 excludes)
addJobsBulk_noSkip(d, jobs) ==
  IF jobs = <<>> THEN [db |-> d, ret |-> <<>>]
  ELSE [db |-> FoldSeq(addJobPipe, d, jobs),
        ret |-> [i \in 1..Len(jobs) |-> FullJob(jobs[i])]]

addJobsBulk(d, jobs) ==
  IF jobs = <<>> THEN [db |-> d, ret |-> <<>>]
  ELSE
    LET newJobs == SelectSeq(jobs, LAMBDA j : ~Exists(d, K_job(j.board, j.job_id)))
    IN IF newJobs = <<>> THEN [db |-> d, ret |-> <<>>]
       ELSE [db |-> FoldSeq(addJobPipe, d, newJobs),
             ret |-> [i \in 1..Len(newJobs) |-> FullJob(newJobs[i])]]

\* the pipeline of removeJob, built from the hash that was read
removeJobPipe(d, board, jobId, data) ==
  LET key == K_job(board, jobId)
      ck == CK(board, jobId)
      p1 == IF HasStr(data, "status")
              THEN SRem(d, K_jobStatusIdx(data.status), ck) ELSE d
      p2 == IF HasSeq(data, "tags")
              THEN FoldSeq(LAMBDA p, tag : SRem(p, K_tagIdx(tag), ck), p1, data.tags)
              ELSE p1
      p3 == SRem(p2, K_boardJobsIdx(board), jobId)
  IN Del(p3, key)

removeJob(d, board, jobId) ==
  LET data == HGetAll(d, K_job(board, jobId))
  IN IF ~HasSeq(data, "job_id") THEN [db |-> d, ret |-> FALSE]
     ELSE [db |-> removeJobPipe(d, board, jobId, data), ret |-> TRUE]

Null == [null |-> TRUE]

IsNull(x) == DOMAIN x = {"null"}

\* the write pipeline of updateJobStatus without the SREM from the old
\* status set (the fault that C23 excludes)
updateJobStatusPipe_noSrem(d, board, jobId, data, newStatus) ==
  LET d1 == HSet(d, K_job(board, jobId), [status |-> newStatus, updated_at |-> "now"])
  IN SAdd(d1, K_jobStatusIdx(newStatus), CK(board, jobId))

\* the write pipeline of updateJobStatus, given the hash it read
updateJobStatusPipe(d, board, jobId, data, newStatus) ==
  LET key == K_job(board, jobId)
      ck == CK(board, jobId)
      d1 == HSet(d, key, [status |-> newStatus, updated_at |-> "now"])
      d2 == IF HasStr(data, "status")
              THEN SRem(d1, K_jobStatusIdx(data.status), ck) ELSE d1
  IN SAdd(d2, K_jobStatusIdx(newStatus), ck)

updateJobStatus(d, board, jobId, newStatus) ==
  LET data == HGetAll(d, K_job(board, jobId))
  IN IF ~HasSeq(data, "job_id") THEN [db |-> d, ret |-> Null]
     ELSE [db |-> updateJobStatusPipe(d, board, jobId, data, newStatus),
           ret |-> [status |-> newStatus, updated_at |-> "now"] @@ data]

getJob(d, board, jobId) ==
  LET data == HGetAll(d, K_job(board, jobId))
  IN IF ~HasSeq(data, "job_id") THEN Null ELSE data

parseJobHash(data) == IF ~HasSeq(data, "job_id") THEN Null ELSE data

\* SINTER of the sets under keys (a non-empty sequence of keys)
SInter(d, keys) == {m \in SMembers(d, keys[1]) : \A i \in 1..Len(keys) : m \in SMembers(d, keys[i])}

\* const [board, jobId] = ck.split(":")
SplitBoard(ck) == IF Len(ck) >= 1 THEN <<ck[1]>> ELSE <<"">>

SplitJobId(ck) == IF Len(ck) >= 2 THEN <<ck[2]>> ELSE <<"undefined">>

\* the composite keys pushed board by board when no filter is given
AllBoardCKs(d, boardIds) ==
  FoldSeq(LAMBDA cks, bid : cks \o SetToSeq({CK(bid, jid) : jid \in SMembers(d, K_boardJobsIdx(bid))}),
          <<>>, boardIds)

\* opts: board (<<>> when absent), status and tag ("" when absent)
listJobs(d, opts) ==
  LET hasBoard == opts.board # <<>>
      sets == (IF hasBoard THEN <<K_boardJobsIdx(opts.board)>> ELSE <<>>)
              \o (IF opts.status # "" THEN <<K_jobStatusIdx(opts.status)>> ELSE <<>>)
              \o (IF opts.tag # "" THEN <<K_tagIdx(opts.tag)>> ELSE <<>>)
      boardCKs == {CK(opts.board, jid) : jid \in SMembers(d, K_boardJobsIdx(opts.board))}
      otherSets == SelectSeq(sets, LAMBDA k : k # K_boardJobsIdx(opts.board))
      compositeKeys ==
        IF Len(sets) = 0 THEN AllBoardCKs(d, SetToSeq(SMembers(d, K_boardsIdx)))
        ELSE IF hasBoard /\ Len(sets) = 1 THEN SetToSeq(boardCKs)
        ELSE IF hasBoard THEN SetToSeq({ck \in SInter(d, otherSets) : ck \in boardCKs})
        ELSE SetToSeq(SInter(d, sets))
      jobs == [i \in 1..Len(compositeKeys) |->
                 parseJobHash(HGetAll(d, K_job(SplitBoard(compositeKeys[i]),
                                               SplitJobId(compositeKeys[i]))))]
  IN SelectSeq(jobs, LAMBDA j : ~IsNull(j))

\* ───────────── users ─────────────
\* the tags field holds the JSON text of the tag array; JSON.parse gives the
\* array back, so the field is modelled as the sequence of tags
K_user(id) == <<"user">> \o id

K_usersIdx == <<"idx", "users">>

upsertUser(d, id, resumes, answers, tags) ==
  LET d1 == HSet(d, K_user(id), [id |-> id, resumes |-> resumes, answers |-> answers,
                                 tags |-> tags, updated_at |-> "now"])
  IN [db |-> SAdd(d1, K_usersIdx, id),
      ret |-> [id |-> id, resumes |-> resumes, answers |-> answers, tags |-> tags,
               updated_at |-> "now"]]

getUser(d, id) ==
  LET data == HGetAll(d, K_user(id))
  IN IF ~HasSeq(data, "id") THEN Null
     ELSE [id |-> data.id, resumes |-> data.resumes, answers |-> data.answers,
           tags |-> data.tags, updated_at |-> data.updated_at]

\* SUNION of the sets under keys
SUnion(d, keys) == UNION {SMembers(d, keys[i]) : i \in 1..Len(keys)}

\* ck.startsWith(`${board}:`)
StartsWithBoard(ck, board) ==
  Len(ck) > Len(board) /\ SubSeq(ck, 1, Len(board)) = board

\* listJobsForUser without the board restriction (the fault that C27
\* excludes)
listJobsForUser_anyBoard(d, userId, opts) ==
  LET user == getUser(d, userId)
  IN IF IsNull(user) THEN <<>>
     ELSE IF Len(user.tags) = 0 THEN <<>>
     ELSE
       LET status == IF opts.status # "" THEN opts.status ELSE "discovered"
           tagSets == [i \in 1..Len(user.tags) |-> K_tagIdx(user.tags[i])]
           filtered == {ck \in SUnion(d, tagSets) : ck \in SMembers(d, K_jobStatusIdx(status))}
           cks == SetToSeq(filtered)
           jobs == [i \in 1..Len(cks) |->
                      parseJobHash(HGetAll(d, K_job(SplitBoard(cks[i]), SplitJobId(cks[i]))))]
       IN SelectSeq(jobs, LAMBDA j : ~IsNull(j))

\* opts: board (<<>> when absent) and status ("" when absent)
listJobsForUser(d, userId, opts) ==
  LET user == getUser(d, userId)
  IN IF IsNull(user) THEN <<>>
     ELSE IF Len(user.tags) = 0 THEN <<>>
     ELSE
       LET status == IF opts.status # "" THEN opts.status ELSE "discovered"
           tagSets == [i \in 1..Len(user.tags) |-> K_tagIdx(user.tags[i])]
           candidateKeys == IF Len(tagSets) = 1 THEN SMembers(d, tagSets[1])
                            ELSE SUnion(d, tagSets)
           statusSet == SMembers(d, K_jobStatusIdx(status))
           filtered == {ck \in candidateKeys : ck \in statusSet}
           filtered2 == IF opts.board # <<>>
                          THEN {ck \in filtered : StartsWithBoard(ck, opts.board)}
                          ELSE filtered
           cks == SetToSeq(filtered2)
           jobs == [i \in 1..Len(cks) |->
                      parseJobHash(HGetAll(d, K_job(SplitBoard(cks[i]), SplitJobId(cks[i]))))]
       IN SelectSeq(jobs, LAMBDA j : ~IsNull(j))

\* ───────────── job runs ─────────────
\* An optional artifacts argument is <<>> (not supplied) or <<obj>>; the
\* stored artifacts text is <<>> for JSON "null" and <<obj>> for an object,
\* obj a function from field names to values (answers: a function again).
ErrConflict == [error |-> "Job already has an active application in progress", code |-> 409]

ErrNotFound == [error |-> "Job not found", code |-> 404]

ErrInvalidState == [error |-> "only discovered/queued jobs can be applied to", code |-> 400]

FullRun(run, artifacts) ==
  [run_id |-> run.run_id, job_id |-> run.job_id, board |-> run.board,
   variant_id |-> run.variant_id, status |-> "pending", started_at |-> "now",
   completed_at |-> "", error |-> "", artifacts |-> artifacts]

\* step 3 of createRun without the entry in the global run set (the fault
\* that C19 excludes)
createRunPipe_noGlobalIdx(d, run, artifacts) ==
  LET d1 == HSet(d, K_run(run.run_id), FullRun(run, artifacts))
  IN SAdd(d1, K_jobRunsIdx(run.job_id), run.run_id)

\* step 3 of createRun: the run hash and its two index entries (one pipeline)
createRunPipe(d, run, artifacts) ==
  LET d1 == HSet(d, K_run(run.run_id), FullRun(run, artifacts))
      d2 == SAdd(d1, K_jobRunsIdx(run.job_id), run.run_id)
  IN SAdd(d2, K_runsAll, run.run_id)

\* createRun with the job checked before the lock is taken (the fault that
\* C7 excludes)
createRun_jobFirst(d, run, artifacts) ==
  LET lockKey == K_applyLock(run.board, run.job_id)
      job == getJob(d, run.board, run.job_id)
  IN IF IsNull(job) THEN [db |-> d, ret |-> ErrNotFound]
     ELSE IF job.status \notin APPLICABLE_STATUSES THEN [db |-> d, ret |-> ErrInvalidState]
     ELSE
       LET locked == SetNX(d, lockKey, run.run_id)
       IN IF ~locked.ok THEN [db |-> d, ret |-> ErrConflict]
          ELSE
            LET d3 == createRunPipe(locked.db, run, artifacts)
                d4 == IF job.status = "discovered"
                        THEN updateJobStatus(d3, run.board, run.job_id, "queued").db
                        ELSE d3
            IN [db |-> d4, ret |-> [run |-> FullRun(run, artifacts)]]

\* createRun that keeps the lock when the status is refused (the fault that
\* C10 excludes)
createRun_keepsLock(d, run, artifacts) ==
  LET lockKey == K_applyLock(run.board, run.job_id)
      locked == SetNX(d, lockKey, run.run_id)
  IN IF ~locked.ok THEN [db |-> d, ret |-> ErrConflict]
     ELSE
       LET job == getJob(locked.db, run.board, run.job_id)
       IN IF IsNull(job) THEN [db |-> Del(locked.db, lockKey), ret |-> ErrNotFound]
          ELSE IF job.status \notin APPLICABLE_STATUSES
            THEN [db |-> locked.db, ret |-> ErrInvalidState]
          ELSE
            LET d3 == createRunPipe(locked.db, run, artifacts)
                d4 == IF job.status = "discovered"
                        THEN updateJobStatus(d3, run.board, run.job_id, "queued").db
                        ELSE d3
            IN [db |-> d4, ret |-> [run |-> FullRun(run, artifacts)]]

\* createRun that also refuses a job with a run still in flight (the fault
\* that C15 excludes)
createRun_activeRunBlocks(d, run, artifacts) ==
  LET lockKey == K_applyLock(run.board, run.job_id)
      locked == SetNX(d, lockKey, run.run_id)
      active == \E rid \in SMembers(d, K_jobRunsIdx(run.job_id)) :
                  /\ HasStr(HGetAll(d, K_run(rid)), "status")
                  /\ HGetAll(d, K_run(rid)).status \in {"pending", "submitted"}
  IN IF ~locked.ok \/ active THEN [db |-> d, ret |-> ErrConflict]
     ELSE
       LET job == getJob(locked.db, run.board, run.job_id)
       IN IF IsNull(job) THEN [db |-> Del(locked.db, lockKey), ret |-> ErrNotFound]
          ELSE IF job.status \notin APPLICABLE_STATUSES
            THEN [db |-> Del(locked.db, lockKey), ret |-> ErrInvalidState]
          ELSE
            LET d3 == createRunPipe(locked.db, run, artifacts)
                d4 == IF job.status = "discovered"
                        THEN updateJobStatus(d3, run.board, run.job_id, "queued").db
                        ELSE d3
            IN [db |-> d4, ret |-> [run |-> FullRun(run, artifacts)]]

\* createRun that leaves its lock behind when the job is missing (the fault
\* that C20 excludes)
createRun_notFoundKeepsLock(d, run, artifacts) ==
  LET lockKey == K_applyLock(run.board, run.job_id)
      locked == SetNX(d, lockKey, run.run_id)
  IN IF ~locked.ok THEN [db |-> d, ret |-> ErrConflict]
     ELSE
       LET job == getJob(locked.db, run.board, run.job_id)
       IN IF IsNull(job) THEN [db |-> locked.db, ret |-> ErrNotFound]
          ELSE IF job.status \notin APPLICABLE_STATUSES
            THEN [db |-> Del(locked.db, lockKey), ret |-> ErrInvalidState]
          ELSE
            LET d3 == createRunPipe(locked.db, run, artifacts)
                d4 == IF job.status = "discovered"
                        THEN updateJobStatus(d3, run.board, run.job_id, "queued").db
                        ELSE d3
            IN [db |-> d4, ret |-> [run |-> FullRun(run, artifacts)]]

createRun(d, run, artifacts) ==
  LET lockKey == K_applyLock(run.board, run.job_id)
      locked == SetNX(d, lockKey, run.run_id)
  IN IF ~locked.ok THEN [db |-> d, ret |-> ErrConflict]
     ELSE
       LET job == getJob(locked.db, run.board, run.job_id)
       IN IF IsNull(job) THEN [db |-> Del(locked.db, lockKey), ret |-> ErrNotFound]
          ELSE IF job.status \notin APPLICABLE_STATUSES
            THEN [db |-> Del(locked.db, lockKey), ret |-> ErrInvalidState]
          ELSE
            LET d3 == createRunPipe(locked.db, run, artifacts)
                d4 == IF job.status = "discovered"
                        THEN updateJobStatus(d3, run.board, run.job_id, "queued").db
                        ELSE d3
            IN [db |-> d4, ret |-> [run |-> FullRun(run, artifacts)]]

parseRunHash(data) ==
  IF ~HasSeq(data, "run_id") THEN Null
  ELSE [run_id |-> data.run_id, job_id |-> data.job_id, board |-> data.board,
        variant_id |-> data.variant_id, status |-> data.status,
        started_at |-> data.started_at, completed_at |-> data.completed_at,
        error |-> data.error,
        artifacts |-> IF "artifacts" \in DOMAIN data THEN data.artifacts ELSE <<>>]

\* jobId = <<>> stands for the omitted argument
listRuns(d, jobId) ==
  LET runIds == IF jobId # <<>> THEN SMembers(d, K_jobRunsIdx(jobId))
                ELSE SMembers(d, K_runsAll)
      runs == {parseRunHash(HGetAll(d, K_run(rid))) : rid \in runIds}
  IN {r \in runs : ~IsNull(r)}

\* { ...existing, ...update } alone: the update's answers replace the stored
\* ones (the fault that C11 excludes)
mergeArtifacts_shallow(existing, upd) == upd @@ existing

\* { ...existing, ...update } with the answers sub-map merged key-wise
mergeArtifacts(existing, upd) ==
  LET merged == upd @@ existing
  IN IF "answers" \in DOMAIN upd /\ "answers" \in DOMAIN existing
       THEN [merged EXCEPT !["answers"] = upd["answers"] @@ existing["answers"]]
       ELSE merged

\* the fields updateRun writes to the run hash
updateRunFields(data, update) ==
  LET f1 == [status |-> update.status]
      f2 == IF update.status \in {"success", "failed"}
              THEN [completed_at |-> "now"] @@ f1 ELSE f1
      f3 == IF update.error # "" THEN [error |-> update.error] @@ f2 ELSE f2
      existing == IF "artifacts" \in DOMAIN data /\ data.artifacts # <<>>
                    THEN data.artifacts[1] ELSE <<>>
  IN IF update.artifacts = <<>> THEN f3
     ELSE [artifacts |-> <<mergeArtifacts(existing, update.artifacts[1])>>] @@ f3

\* reading existing.answers of a null existing throws a TypeError
updateRunThrows(data, update) ==
  /\ update.artifacts # <<>>
  /\ "artifacts" \in DOMAIN data
  /\ data.artifacts = <<>>
  /\ "answers" \in DOMAIN update.artifacts[1]

\* updateRunOutcome that releases the lock on every update, progress updates
\* included (the fault that C21 excludes)
updateRunOutcome_alwaysReleases(d, runId, data, status) ==
  LET board == data.board
      jobId == data.job_id
      lockKey == K_applyLock(board, jobId)
  IN IF status = "success"
       THEN Del(updateJobStatus(d, board, jobId, "applied").db, lockKey)
     ELSE IF status = "failed"
       THEN LET siblingRuns == listRuns(d, jobId)
                hasActiveRun == \E sr \in siblingRuns :
                                  sr.run_id # runId /\ sr.status \in {"pending", "submitted"}
                d1 == IF ~hasActiveRun
                        THEN updateJobStatus(d, board, jobId, "discovered").db
                        ELSE d
            IN Del(d1, lockKey)
     ELSE Del(d, lockKey)

\* updateRunOutcome where a failed run releases the lock only when the job
\* is reverted (the fault that C3 excludes)
updateRunOutcome_failedKeepsLock(d, runId, data, status) ==
  LET board == data.board
      jobId == data.job_id
      lockKey == K_applyLock(board, jobId)
  IN IF status = "success"
       THEN Del(updateJobStatus(d, board, jobId, "applied").db, lockKey)
     ELSE IF status = "failed"
       THEN LET siblingRuns == listRuns(d, jobId)
                hasActiveRun == \E sr \in siblingRuns :
                                  sr.run_id # runId /\ sr.status \in {"pending", "submitted"}
            IN IF ~hasActiveRun
                 THEN Del(updateJobStatus(d, board, jobId, "discovered").db, lockKey)
                 ELSE d
     ELSE d

\* the job-level side effects of a terminal run status (steps after the hset)
updateRunOutcome(d, runId, data, status) ==
  LET board == data.board
      jobId == data.job_id
      lockKey == K_applyLock(board, jobId)
  IN IF status = "success"
       THEN Del(updateJobStatus(d, board, jobId, "applied").db, lockKey)
     ELSE IF status = "failed"
       THEN LET siblingRuns == listRuns(d, jobId)
                hasActiveRun == \E sr \in siblingRuns :
                                  sr.run_id # runId /\ sr.status \in {"pending", "submitted"}
                d1 == IF ~hasActiveRun
                        THEN updateJobStatus(d, board, jobId, "discovered").db
                        ELSE d
            IN Del(d1, lockKey)
     ELSE d

\* updateRun that writes the status without the run_id check (the fault that
\* C22 excludes)
updateRun_upserts(d, runId, update) ==
  LET key == K_run(runId)
      data == HGetAll(d, key)
  IN IF ~HasSeq(data, "run_id")
       THEN [db |-> HSet(d, key, [status |-> update.status]), ret |-> Null]
     ELSE IF updateRunThrows(data, update) THEN [db |-> d, ret |-> [throw |-> "TypeError"]]
     ELSE
       LET d1 == HSet(d, key, updateRunFields(data, update))
           d2 == updateRunOutcome(d1, runId, data, update.status)
       IN [db |-> d2, ret |-> parseRunHash(HGetAll(d2, key))]

updateRun(d, runId, update) ==
  LET key == K_run(runId)
      data == HGetAll(d, key)
  IN IF ~HasSeq(data, "run_id") THEN [db |-> d, ret |-> Null]
     ELSE IF updateRunThrows(data, update) THEN [db |-> d, ret |-> [throw |-> "TypeError"]]
     ELSE
       LET d1 == HSet(d, key, updateRunFields(data, update))
           d2 == updateRunOutcome(d1, runId, data, update.status)
       IN [db |-> d2, ret |-> parseRunHash(HGetAll(d2, key))]

\* ───────────── HTTP API: POST { action: "run" } ─────────────
\* a body field that is missing or empty is <<>> (ids) or "" (variant_id)
json(data, status) == [status |-> status, body |-> data]

handleActionRun(d, body) ==
  IF body.run_id = <<>> \/ body.job_id = <<>> \/ body.board = <<>> \/ body.variant_id = ""
    THEN [db |-> d,
          ret |-> json([error |-> "run_id, job_id, board, and variant_id are required"], 400)]
  ELSE
    LET res == createRun(d, [run_id |-> body.run_id, job_id |-> body.job_id,
                             board |-> body.board, variant_id |-> body.variant_id], <<>>)
    IN [db |-> res.db, ret |-> json(res.ret, 201)]

\* PATCH { run_id, status }: body.run_id is truthy; a missing status is ""
handlePatchRun(d, body) ==
  IF body.status = ""
    THEN [db |-> d, ret |-> json([error |-> "status is required"], 400)]
  ELSE IF body.status \notin {"pending", "submitted", "success", "failed"}
    THEN [db |-> d, ret |-> json([error |-> "run status must be one of"], 400)]
  ELSE
    LET res == updateRun(d, body.run_id,
                         [status |-> body.status, error |-> body.error, artifacts |-> <<>>])
    IN IF IsNull(res.ret) THEN [db |-> d, ret |-> json([error |-> "Run not found"], 404)]
       ELSE [db |-> res.db, ret |-> json(res.ret, 200)]

\* GET ?runs_for=<job_id>; an empty runs_for lists every run
handleGetRunsFor(d, runsFor) ==
  LET runs == listRuns(d, runsFor)
  IN json([count |-> Cardinality(runs), runs |-> runs], 200)

\* ───────────── state ─────────────
\* db: the Redis keyspace; last: the most recent call, its arguments and
\* its return value (a boolean or list result is wrapped in a record)
\* procs: the position, arguments, locals and result of each concurrent caller
\* conn: the module-level cached client of redis.ts (0 is null), the number
\* of clients created so far and the clients on which quit has been started
VARIABLES db, last, procs, conn

vars == <<db, last, procs, conn>>

Idle == [pc |-> "idle"]

NoConn == [client |-> 0, created |-> 0, quitting |-> {}]

NoCall == [op |-> "init", args |-> Null, ret |-> Null]

Init ==
  /\ db = EmptyDb
  /\ last = NoCall
  /\ procs = [p \in Procs |-> Idle]
  /\ conn = NoConn

JobInput(b, j, t) ==
  [job_id |-> j, board |-> b, title |-> t, url |-> "", location |-> "", department |-> ""]

RunInput(r, b, j) == [run_id |-> r, job_id |-> j, board |-> b, variant_id |-> "v1"]

Called(op, args, ret) == [op |-> op, args |-> args, ret |-> ret]

AddBoard(b) ==
  LET res == addBoard(db, b, "co", "greenhouse")
  IN /\ db' = res.db
     /\ last' = Called("addBoard", [id |-> b], res.ret)
     /\ UNCHANGED <<procs, conn>>

RemoveBoard(b) ==
  LET res == removeBoard(db, b)
  IN /\ db' = res.db
     /\ last' = Called("removeBoard", [id |-> b], [ok |-> res.ret])
     /\ UNCHANGED <<procs, conn>>

AddJob(b, j, t) ==
  LET res == addJob(db, JobInput(b, j, t))
  IN /\ db' = res.db
     /\ last' = Called("addJob", JobInput(b, j, t), res.ret)
     /\ UNCHANGED <<procs, conn>>

AddJobsBulk(jobs) ==
  LET res == addJobsBulk(db, jobs)
  IN /\ db' = res.db
     /\ last' = Called("addJobsBulk", [jobs |-> jobs], [jobs |-> res.ret])
     /\ UNCHANGED <<procs, conn>>

RemoveJob(b, j) ==
  LET res == removeJob(db, b, j)
  IN /\ db' = res.db
     /\ last' = Called("removeJob", [board |-> b, job_id |-> j], [ok |-> res.ret])
     /\ UNCHANGED <<procs, conn>>

UpdateJobStatus(b, j, st) ==
  LET res == updateJobStatus(db, b, j, st)
  IN /\ db' = res.db
     /\ last' = Called("updateJobStatus", [board |-> b, job_id |-> j, status |-> st], res.ret)
     /\ UNCHANGED <<procs, conn>>

CreateRun(r, b, j) ==
  LET res == createRun(db, RunInput(r, b, j), <<>>)
  IN /\ db' = res.db
     /\ last' = Called("createRun", RunInput(r, b, j), res.ret)
     /\ UNCHANGED <<procs, conn>>

UpdateRun(r, st) ==
  LET res == updateRun(db, r, [status |-> st, error |-> "", artifacts |-> <<>>])
  IN /\ db' = res.db
     /\ last' = Called("updateRun", [run_id |-> r, status |-> st], res.ret)
     /\ UNCHANGED <<procs, conn>>

\* the store expires the apply lock of (b, j), LOCK_TTL_SECONDS after the
\* SET ... EX of createRun; last records the expiry and the run that held it
LockExpires(b, j) ==
  /\ K_applyLock(b, j) \in DOMAIN db.strs
  /\ db' = Del(db, K_applyLock(b, j))
  /\ last' = Called("expire", [board |-> b, job_id |-> j, run_id |-> Get(db, K_applyLock(b, j)),
                                after |-> LOCK_TTL_SECONDS], Null)
  /\ UNCHANGED <<procs, conn>>

\* POST /api/crawler/jobs with body { action: "run", ... }
PostRun(body) ==
  LET res == handleActionRun(db, body)
  IN /\ db' = res.db
     /\ last' = Called("POST run", body, res.ret)
     /\ UNCHANGED <<procs, conn>>

UpsertUser(u, tags) ==
  LET res == upsertUser(db, u, <<>>, <<>>, tags)
  IN /\ db' = res.db
     /\ last' = Called("upsertUser", [id |-> u, tags |-> tags], res.ret)
     /\ UNCHANGED <<procs, conn>>

\* a read: the store is left as it is, the returned list is recorded
ListJobsForUser(u, opts) ==
  /\ db' = db
  /\ last' = Called("listJobsForUser", [user |-> u, opts |-> opts],
                    [jobs |-> listJobsForUser(db, u, opts)])
  /\ UNCHANGED <<procs, conn>>

\* createRun called with initial artifacts (arts = <<>>: none supplied)
\* PATCH /api/crawler/jobs with body { run_id, status, ... }
PatchRun(body) ==
  LET res == handlePatchRun(db, body)
  IN /\ body.run_id # <<>>
     /\ db' = res.db
     /\ last' = Called("PATCH run", body, res.ret)
     /\ UNCHANGED <<procs, conn>>

\* GET /api/crawler/jobs?runs_for=<job_id>
GetRunsFor(runsFor) ==
  /\ db' = db
  /\ last' = Called("GET runs_for", [runs_for |-> runsFor], handleGetRunsFor(db, runsFor))
  /\ UNCHANGED <<procs, conn>>

CreateRunArt(r, b, j, arts) ==
  LET res == createRun(db, RunInput(r, b, j), arts)
  IN /\ db' = res.db
     /\ last' = Called("createRun", RunInput(r, b, j) @@ [artifacts |-> arts], res.ret)
     /\ UNCHANGED <<procs, conn>>

\* updateRun called with artifacts (arts = <<>>: none supplied)
UpdateRunArt(r, st, arts) ==
  LET res == updateRun(db, r, [status |-> st, error |-> "", artifacts |-> arts])
  IN /\ db' = res.db
     /\ last' = Called("updateRun", [run_id |-> r, status |-> st, artifacts |-> arts], res.ret)
     /\ UNCHANGED <<procs, conn>>

\* ───────────── specifications ─────────────
Board1 == <<BoardPool[1]>>

Job1 == <<JobIdPool[1]>>

Title1 == TitlePool[1]

MaxBulk == 2

\* Spec: the coordinator on one job; jobs come from the crawler's bulk add
NextCoord(BB, JJ) ==
  \/ \E b \in BB, j \in JJ : AddJobsBulk(<<JobInput(b, j, Title1)>>)
  \/ \E b \in BB, j \in JJ : RemoveJob(b, j)
  \/ \E b \in BB, j \in JJ, st \in JobStatuses : UpdateJobStatus(b, j, st)
  \/ \E r \in RunIds, b \in BB, j \in JJ : CreateRun(r, b, j)
  \/ \E r \in RunIds, st \in RunStatuses : UpdateRun(r, st)

Next == NextCoord({Board1}, {Job1})

Spec == Init /\ [][Next]_vars

\* SpecSiblings: the coordinator on jobs of several boards sharing a job_id
NextSiblings ==
  \/ \E b \in Boards, j \in JobIds : AddJobsBulk(<<JobInput(b, j, Title1)>>)
  \/ \E r \in RunIds, b \in Boards, j \in JobIds : CreateRun(r, b, j)
  \/ \E r \in RunIds, st \in RunStatuses : UpdateRun(r, st)

SpecSiblings == Init /\ [][NextSiblings]_vars

\* SpecStore: every entity-store and coordinator operation on one job
BulkInputs == UNION {[1..n -> {JobInput(Board1, Job1, t) : t \in Titles}] : n \in 0..MaxBulk}

NextStore ==
  \/ AddBoard(Board1)
  \/ RemoveBoard(Board1)
  \/ \E t \in Titles : AddJob(Board1, Job1, t)
  \/ \E jobs \in BulkInputs : AddJobsBulk(jobs)
  \/ RemoveJob(Board1, Job1)
  \/ \E st \in JobStatuses : UpdateJobStatus(Board1, Job1, st)
  \/ CreateRun(<<RunPool[1]>>, Board1, Job1)
  \/ \E st \in RunStatuses : UpdateRun(<<RunPool[1]>>, st)

SpecStore == Init /\ [][NextStore]_vars

\* SpecArtifacts: one run of one job, created and updated with artifacts
\* artifact objects: optional resume_url and notes, optional answers map
Opt(field, vals) == {<<>>} \cup {[k \in {field} |-> v] : v \in vals}

AnswerMaps == {x @@ y : x \in Opt("x", {"1", "2"}), y \in Opt("y", {"2"})}

ArtifactObjs ==
  {r @@ n @@ ans : r \in Opt("resume_url", {"a", "b"}), n \in Opt("notes", {"b"}),
                   ans \in Opt("answers", AnswerMaps)}

ArtifactArgs == {<<>>} \cup {<<a>> : a \in ArtifactObjs}

Run1 == <<RunPool[1]>>

NextArtifacts ==
  \/ AddJobsBulk(<<JobInput(Board1, Job1, Title1)>>)
  \/ \E arts \in ArtifactArgs : CreateRunArt(Run1, Board1, Job1, arts)
  \/ \E st \in RunStatuses, arts \in ArtifactArgs : UpdateRunArt(Run1, st, arts)

SpecArtifacts == Init /\ [][NextArtifacts]_vars

\* SpecBulk: the crawler's bulk add on two jobs of one board whose statuses
\* are moved by updateJobStatus (SpecStore has the lists that repeat a job)
TwoJobIds == {<<JobIdPool[1]>>, <<JobIdPool[2]>>}

\* crawl results: lists of up to MaxBulk jobs with pairwise distinct job ids
BulkInputs2 ==
  {jobs \in UNION {[1..n -> {JobInput(Board1, j, t) : j \in TwoJobIds, t \in Titles}] :
                     n \in 0..MaxBulk} :
     \A i, k \in 1..Len(jobs) : i # k => jobs[i].job_id # jobs[k].job_id}

NextBulk ==
  \/ \E jobs \in BulkInputs2 : AddJobsBulk(jobs)
  \/ \E j \in TwoJobIds, st \in JobStatuses : UpdateJobStatus(Board1, j, st)
  \/ \E j \in TwoJobIds : RemoveJob(Board1, j)

SpecBulk == Init /\ [][NextBulk]_vars

\* SpecExpiry: the coordinator on one job, with lock expiry
NextExpiry ==
  \/ AddJobsBulk(<<JobInput(Board1, Job1, Title1)>>)
  \/ \E r \in RunIds : CreateRun(r, Board1, Job1)
  \/ \E r \in RunIds, st \in RunStatuses : UpdateRun(r, st)
  \/ LockExpires(Board1, Job1)

SpecExpiry == Init /\ [][NextExpiry]_vars

\* SpecHttp: agents claiming one job through the HTTP action "run"
RunBodies ==
  {[run_id |-> r, job_id |-> Job1, board |-> Board1, variant_id |-> v] :
     r \in RunIds \cup {<<>>}, v \in {"v1", ""}}

NextHttp ==
  \/ AddJobsBulk(<<JobInput(Board1, Job1, Title1)>>)
  \/ \E st \in JobStatuses : UpdateJobStatus(Board1, Job1, st)
  \/ \E body \in RunBodies : PostRun(body)
  \/ \E r \in RunIds, st \in RunStatuses : UpdateRun(r, st)

SpecHttp == Init /\ [][NextHttp]_vars

\* SpecJobs: one job that is crawled again (addJob), moved by hand, removed
\* and claimed by one run
NextJobs ==
  \/ \E t \in Titles : AddJob(Board1, Job1, t)
  \/ RemoveJob(Board1, Job1)
  \/ \E st \in JobStatuses : UpdateJobStatus(Board1, Job1, st)
  \/ CreateRun(Run1, Board1, Job1)
  \/ \E st \in RunStatuses : UpdateRun(Run1, st)

SpecJobs == Init /\ [][NextJobs]_vars

\* SpecUsers: one job on each of two boards, one user whose interest tags
\* are set and changed, and queries for that user and for an unknown one
TwoBoards == {<<BoardPool[1]>>, <<BoardPool[2]>>}

User1 == <<"u1">>

User2 == <<"u2">>

UserTagLists == {<<>>, <<"quant">>, <<"engineering">>, <<"quant", "engineering">>}

UserOpts == [board : {<<>>} \cup TwoBoards, status : {"", "queued", "applied"}]

NextUsers ==
  \/ \E b \in TwoBoards, t \in Titles : AddJobsBulk(<<JobInput(b, Job1, t)>>)
  \/ \E b \in TwoBoards, st \in JobStatuses : UpdateJobStatus(b, Job1, st)
  \/ \E b \in TwoBoards : RemoveJob(b, Job1)
  \/ \E tags \in UserTagLists : UpsertUser(User1, tags)
  \/ \E u \in {User1, User2}, opts \in UserOpts : ListJobsForUser(u, opts)

SpecUsers == Init /\ [][NextUsers]_vars

\* SpecRuns: the coordinator on two jobs of one board that share the run ids
NextRuns ==
  \/ \E j \in TwoJobIds : AddJobsBulk(<<JobInput(Board1, j, Title1)>>)
  \/ \E r \in RunIds, j \in TwoJobIds : CreateRun(r, Board1, j)
  \/ \E r \in RunIds, st \in RunStatuses : UpdateRun(r, st)

SpecRuns == Init /\ [][NextRuns]_vars

\* SpecHttpArt: requests that carry artifacts in their body
HttpArtifactArgs == {<<>>, <<[resume_url |-> "a"]>>, <<[notes |-> "b"]>>}

RunBodiesArt ==
  {[run_id |-> r, job_id |-> Job1, board |-> Board1, variant_id |-> "v1", artifacts |-> a] :
     r \in RunIds, a \in HttpArtifactArgs}

PatchBodies ==
  {[run_id |-> r, status |-> st, error |-> "", artifacts |-> a] :
     r \in RunIds, st \in {"", "submitted", "success", "done"}, a \in HttpArtifactArgs}

NextHttpArt ==
  \/ AddJobsBulk(<<JobInput(Board1, Job1, Title1)>>)
  \/ \E body \in RunBodiesArt : PostRun(body)
  \/ \E body \in PatchBodies : PatchRun(body)
  \/ \E j \in {<<>>, Job1} : GetRunsFor(j)

SpecHttpArt == Init /\ [][NextHttpArt]_vars

\* SpecColon: board ids and job ids that contain the separator ':' (an id
\* of two segments), one run id
ColonPairs ==
  {<<<<BoardPool[1]>>, <<JobIdPool[1]>>>>,
   <<<<BoardPool[1], BoardPool[2]>>, <<JobIdPool[1]>>>>,
   <<<<BoardPool[1]>>, <<BoardPool[2], JobIdPool[1]>>>>}

NextColon ==
  \/ \E pr \in ColonPairs : AddJob(pr[1], pr[2], Title1)
  \/ \E pr \in ColonPairs : CreateRun(Run1, pr[1], pr[2])
  \/ \E st \in RunStatuses : UpdateRun(Run1, st)

SpecColon == Init /\ [][NextColon]_vars

\* ───────────── concurrent callers: one store command per step ─────────────
\* A pipeline is sent as one batch and takes effect in one step.
\* A caller is free when it has no call in progress; the result of its last
\* call stays visible until it starts the next one.  rel records that the
\* apply lock of the call's job was deleted after the call's SET NX.
Free(p) == procs[p].pc \in {"idle", "done"}

Return(p, ret) == [procs[p] EXCEPT !.pc = "done", !.ret = ret]

OnLock(q, lockKey) ==
  /\ procs[q].pc # "idle"
  /\ procs[q].op = "createRun"
  /\ K_applyLock(procs[q].run.board, procs[q].run.job_id) = lockKey

\* createRun line 329: SET lockKey run_id EX 300 NX
CR_SetNX(p, run) ==
  /\ Free(p)
  /\ LET locked == SetNX(db, K_applyLock(run.board, run.job_id), run.run_id)
         call == [op |-> "createRun", run |-> run, locked |-> locked.ok, rel |-> FALSE,
                  job |-> Null, data |-> <<>>, st |-> "", ret |-> Null]
     IN /\ db' = locked.db
        /\ procs' = [procs EXCEPT ![p] =
                       IF locked.ok THEN call @@ [pc |-> "cr_getJob"]
                       ELSE [call EXCEPT !.ret = ErrConflict] @@ [pc |-> "done"]]
  /\ UNCHANGED <<last, conn>>

\* createRun line 335: getJob
CR_GetJob(p) ==
  /\ procs[p].pc = "cr_getJob"
  /\ LET job == getJob(db, procs[p].run.board, procs[p].run.job_id)
     IN procs' = [procs EXCEPT ![p] =
          [@ EXCEPT !.job = job,
                    !.pc = IF IsNull(job) THEN "cr_del404"
                           ELSE IF job.status \notin APPLICABLE_STATUSES THEN "cr_del400"
                           ELSE "cr_pipe"]]
  /\ UNCHANGED <<db, last, conn>>

\* createRun lines 337-338 and 341-342: del lockKey, return the error
CR_DelLock(p) ==
  /\ procs[p].pc \in {"cr_del404", "cr_del400"}
  /\ LET lockKey == K_applyLock(procs[p].run.board, procs[p].run.job_id)
         ret == IF procs[p].pc = "cr_del404" THEN ErrNotFound ELSE ErrInvalidState
     IN /\ db' = Del(db, lockKey)
        /\ procs' = [q \in Procs |->
             IF q = p THEN [Return(p, ret) EXCEPT !.rel = TRUE]
             ELSE IF OnLock(q, lockKey) THEN [procs[q] EXCEPT !.rel = TRUE]
             ELSE procs[q]]
  /\ UNCHANGED <<last, conn>>

\* createRun lines 355-369: the run pipeline
CR_Pipe(p) ==
  /\ procs[p].pc = "cr_pipe"
  /\ db' = createRunPipe(db, procs[p].run, <<>>)
  /\ procs' = [procs EXCEPT ![p] =
       IF procs[p].job.status = "discovered" THEN [@ EXCEPT !.pc = "cr_ujs_read"]
       ELSE Return(p, [run |-> FullRun(procs[p].run, <<>>)])]
  /\ UNCHANGED <<last, conn>>

\* createRun line 373 -> updateJobStatus lines 179-181: hgetall
CR_UjsRead(p) ==
  /\ procs[p].pc = "cr_ujs_read"
  /\ LET data == HGetAll(db, K_job(procs[p].run.board, procs[p].run.job_id))
     IN procs' = [procs EXCEPT ![p] =
          IF ~HasSeq(data, "job_id") THEN Return(p, [run |-> FullRun(procs[p].run, <<>>)])
          ELSE [@ EXCEPT !.data = data, !.pc = "cr_ujs_write"]]
  /\ UNCHANGED <<db, last, conn>>

\* createRun line 373 -> updateJobStatus lines 186-190: the status pipeline
CR_UjsWrite(p) ==
  /\ procs[p].pc = "cr_ujs_write"
  /\ db' = updateJobStatusPipe(db, procs[p].run.board, procs[p].run.job_id,
                                procs[p].data, "queued")
  /\ procs' = [procs EXCEPT ![p] = Return(p, [run |-> FullRun(procs[p].run, <<>>)])]
  /\ UNCHANGED <<last, conn>>

\* updateJobStatus lines 179-181: hgetall
UJS_Read(p, b, j, st) ==
  /\ Free(p)
  /\ LET data == HGetAll(db, K_job(b, j))
         call == [op |-> "updateJobStatus", run |-> RunInput(<<>>, b, j), locked |-> FALSE,
                  rel |-> FALSE, job |-> Null, data |-> data, st |-> st, ret |-> Null]
     IN procs' = [procs EXCEPT ![p] =
          IF ~HasSeq(data, "job_id") THEN call @@ [pc |-> "done"]
          ELSE call @@ [pc |-> "ujs_write"]]
  /\ UNCHANGED <<db, last, conn>>

\* updateJobStatus lines 186-197: the status pipeline
UJS_Write(p) ==
  /\ procs[p].pc = "ujs_write"
  /\ db' = updateJobStatusPipe(db, procs[p].run.board, procs[p].run.job_id,
                                procs[p].data, procs[p].st)
  /\ procs' = [procs EXCEPT ![p] =
       Return(p, [status |-> procs[p].st, updated_at |-> "now"] @@ procs[p].data)]
  /\ UNCHANGED <<last, conn>>

\* removeJob lines 155-157: hgetall
RJ_Read(p, b, j) ==
  /\ Free(p)
  /\ LET data == HGetAll(db, K_job(b, j))
         call == [op |-> "removeJob", board |-> b, job_id |-> j, data |-> data,
                  ret |-> [ok |-> FALSE]]
     IN procs' = [procs EXCEPT ![p] =
          IF ~HasSeq(data, "job_id") THEN call @@ [pc |-> "done"]
          ELSE call @@ [pc |-> "rj_pipe"]]
  /\ UNCHANGED <<db, last, conn>>

\* removeJob lines 159-170: the removal pipeline
RJ_Pipe(p) ==
  /\ procs[p].pc = "rj_pipe"
  /\ db' = removeJobPipe(db, procs[p].board, procs[p].job_id, procs[p].data)
  /\ procs' = [procs EXCEPT ![p] = Return(p, [ok |-> TRUE])]
  /\ UNCHANGED <<last, conn>>

\* updateRun lines 391-409: hgetall of the run, the fields and the merged
\* artifacts computed from what was read
UR_Read(p, runId, update) ==
  /\ Free(p)
  /\ LET data == HGetAll(db, K_run(runId))
         call == [op |-> "updateRun", runId |-> runId, update |-> update, data |-> data,
                  fields |-> <<>>, jdata |-> <<>>, target |-> "", runIds |-> {},
                  ret |-> Null]
     IN procs' = [procs EXCEPT ![p] =
          IF ~HasSeq(data, "run_id") THEN call @@ [pc |-> "done"]
          ELSE IF updateRunThrows(data, update)
            THEN [call EXCEPT !.ret = [throw |-> "TypeError"]] @@ [pc |-> "done"]
          ELSE [call EXCEPT !.fields = updateRunFields(data, update)] @@ [pc |-> "ur_hset"]]
  /\ UNCHANGED <<db, last, conn>>

\* updateRun line 411: hset of the fields
UR_HSet(p) ==
  /\ procs[p].pc = "ur_hset"
  /\ db' = HSet(db, K_run(procs[p].runId), procs[p].fields)
  /\ procs' = [procs EXCEPT ![p] =
       IF procs[p].update.status = "success"
         THEN [@ EXCEPT !.target = "applied", !.pc = "ur_ujs_read"]
       ELSE IF procs[p].update.status = "failed" THEN [@ EXCEPT !.pc = "ur_smembers"]
       ELSE [@ EXCEPT !.pc = "ur_final"]]
  /\ UNCHANGED <<last, conn>>

\* updateRun line 423 -> listRuns lines 453-455: smembers of the job's run set
UR_SMembers(p) ==
  /\ procs[p].pc = "ur_smembers"
  /\ procs' = [procs EXCEPT ![p] =
       [@ EXCEPT !.runIds = SMembers(db, K_jobRunsIdx(procs[p].data.job_id)),
                 !.pc = "ur_hgetalls"]]
  /\ UNCHANGED <<db, last, conn>>

\* listRuns lines 457-463 (the hgetalls, sent together) and updateRun lines
\* 424-429: hasActiveRun
UR_HGetAlls(p) ==
  /\ procs[p].pc = "ur_hgetalls"
  /\ LET runs == {parseRunHash(HGetAll(db, K_run(rid))) : rid \in procs[p].runIds}
         siblingRuns == {r \in runs : ~IsNull(r)}
         hasActiveRun == \E sr \in siblingRuns :
                           sr.run_id # procs[p].runId /\ sr.status \in {"pending", "submitted"}
     IN procs' = [procs EXCEPT ![p] =
          IF ~hasActiveRun THEN [@ EXCEPT !.target = "discovered", !.pc = "ur_ujs_read"]
          ELSE [@ EXCEPT !.pc = "ur_del"]]
  /\ UNCHANGED <<db, last, conn>>

\* updateRun lines 418 and 428 -> updateJobStatus lines 179-181: hgetall
UR_UjsRead(p) ==
  /\ procs[p].pc = "ur_ujs_read"
  /\ LET jdata == HGetAll(db, K_job(procs[p].data.board, procs[p].data.job_id))
     IN procs' = [procs EXCEPT ![p] =
          IF ~HasSeq(jdata, "job_id") THEN [@ EXCEPT !.pc = "ur_del"]
          ELSE [@ EXCEPT !.jdata = jdata, !.pc = "ur_ujs_write"]]
  /\ UNCHANGED <<db, last, conn>>

\* updateRun lines 418 and 428 -> updateJobStatus lines 186-190: the pipeline
UR_UjsWrite(p) ==
  /\ procs[p].pc = "ur_ujs_write"
  /\ db' = updateJobStatusPipe(db, procs[p].data.board, procs[p].data.job_id,
                                procs[p].jdata, procs[p].target)
  /\ procs' = [procs EXCEPT ![p] = [@ EXCEPT !.pc = "ur_del"]]
  /\ UNCHANGED <<last, conn>>

\* updateRun lines 419 and 430: del lockKey
UR_DelLock(p) ==
  /\ procs[p].pc = "ur_del"
  /\ LET lockKey == K_applyLock(procs[p].data.board, procs[p].data.job_id)
     IN /\ db' = Del(db, lockKey)
        /\ procs' = [q \in Procs |->
             IF q = p THEN [procs[p] EXCEPT !.pc = "ur_final"]
             ELSE IF OnLock(q, lockKey) THEN [procs[q] EXCEPT !.rel = TRUE]
             ELSE procs[q]]
  /\ UNCHANGED <<last, conn>>

\* updateRun lines 433-434: hgetall of the run, return it hydrated
UR_Final(p) ==
  /\ procs[p].pc = "ur_final"
  /\ procs' = [procs EXCEPT ![p] =
       Return(p, parseRunHash(HGetAll(db, K_run(procs[p].runId))))]
  /\ UNCHANGED <<db, last, conn>>

\* A request of crawler-jobs.mts: r is the client the request holds, cmds the
\* number of store commands it has issued; staleGet and staleCmd record that
\* quit had been started on r when getRedis returned it or when a command was
\* issued on it.
\* handler line 33 -> getRedis lines 5-18
REQ_GetRedis(p) ==
  /\ Free(p)
  /\ conn.client = 0 => conn.created < MaxClients
  /\ LET c == IF conn.client # 0 THEN conn.client ELSE conn.created + 1
     IN /\ conn' = IF conn.client # 0 THEN conn
                   ELSE [conn EXCEPT !.client = c, !.created = c]
        /\ procs' = [procs EXCEPT ![p] =
             [op |-> "request", pc |-> "req_try", r |-> c, cmds |-> 0,
              staleGet |-> c \in conn.quitting, staleCmd |-> FALSE]]
  /\ UNCHANGED <<db, last>>

\* handler lines 35-126: a store command of an entity operation, sent on r
REQ_Command(p) ==
  /\ procs[p].pc = "req_try"
  /\ procs[p].cmds < MaxCmds
  /\ procs' = [procs EXCEPT ![p] =
       [@ EXCEPT !.cmds = @ + 1,
                 !.staleCmd = @ \/ procs[p].r \in conn.quitting]]
  /\ UNCHANGED <<db, last, conn>>

\* handler line 131 -> disconnectRedis lines 21-22: quit is started on the
\* cached client, or nothing is done when there is none
REQ_Quit(p) ==
  /\ procs[p].pc = "req_try"
  /\ IF conn.client # 0
       THEN /\ conn' = [conn EXCEPT !.quitting = @ \cup {conn.client}]
            /\ procs' = [procs EXCEPT ![p] = [@ EXCEPT !.pc = "req_quit"]]
       ELSE /\ conn' = conn
            /\ procs' = [procs EXCEPT ![p] = [@ EXCEPT !.pc = "done"]]
  /\ UNCHANGED <<db, last>>

\* disconnectRedis line 23, after the quit was answered: client = null
REQ_ClearClient(p) ==
  /\ procs[p].pc = "req_quit"
  /\ conn' = [conn EXCEPT !.client = 0]
  /\ procs' = [procs EXCEPT ![p] = [@ EXCEPT !.pc = "done"]]
  /\ UNCHANGED <<db, last>>

\* SpecConn: requests served by one process, interleaved at their awaits
NextConn ==
  \/ \E p \in Procs : REQ_GetRedis(p)
  \/ \E p \in Procs : REQ_Command(p)
  \/ \E p \in Procs : REQ_Quit(p)
  \/ \E p \in Procs : REQ_ClearClient(p)

SpecConn == Init /\ [][NextConn]_vars

\* SpecConc: concurrent claims of one discovered job against manual status
\* changes; every caller claims under its own run id
ManualStatuses == {"rejected", "expired", "discovered"}

RunOf(p) == <<RunPool[p]>>

InitConc ==
  /\ db = addJobsBulk(EmptyDb, <<JobInput(Board1, Job1, Title1)>>).db
  /\ last = NoCall
  /\ procs = [p \in Procs |-> Idle]
  /\ conn = NoConn

NextConc ==
  \/ \E p \in Procs : CR_SetNX(p, RunInput(RunOf(p), Board1, Job1))
  \/ \E p \in Procs : CR_GetJob(p)
  \/ \E p \in Procs : CR_DelLock(p)
  \/ \E p \in Procs : CR_Pipe(p)
  \/ \E p \in Procs : CR_UjsRead(p)
  \/ \E p \in Procs : CR_UjsWrite(p)
  \/ \E p \in Procs, st \in ManualStatuses : UJS_Read(p, Board1, Job1, st)
  \/ \E p \in Procs : UJS_Write(p)

SpecConc == InitConc /\ [][NextConc]_vars

\* SpecConcArt: concurrent updateRun calls on one run that was created with
\* artifacts; every caller supplies artifacts with a field of its own
ArtFieldPool == <<"notes", "confirmation_url", "cover_letter", "answers_url">>

ArtFieldOf(p) == ArtFieldPool[p]

UpdateOf(p, st) ==
  [status |-> st, error |-> "", artifacts |-> <<[k \in {ArtFieldOf(p)} |-> "v"]>>]

InitConcArt ==
  /\ db = createRun(addJobsBulk(EmptyDb, <<JobInput(Board1, Job1, Title1)>>).db,
                    RunInput(Run1, Board1, Job1), <<[resume_url |-> "a"]>>).db
  /\ last = NoCall
  /\ procs = [p \in Procs |-> Idle]
  /\ conn = NoConn

\* artifacts are sent with progress reports and with the final success
ArtUpdateStatuses == {"submitted", "success"}

NextConcArt ==
  \/ \E p \in Procs, st \in ArtUpdateStatuses : UR_Read(p, Run1, UpdateOf(p, st))
  \/ \E p \in Procs : UR_HSet(p)
  \/ \E p \in Procs : UR_UjsRead(p)
  \/ \E p \in Procs : UR_UjsWrite(p)
  \/ \E p \in Procs : UR_DelLock(p)
  \/ \E p \in Procs : UR_Final(p)

SpecConcArt == InitConcArt /\ [][NextConcArt]_vars

\* SpecConcRuns: concurrent createRun and updateRun calls on one job, no
\* lock expiry; a caller claims under its own run id and reports the outcome
\* of any caller's run
TerminalStatuses == {"success", "failed"}

Outcome(st) == [status |-> st, error |-> "", artifacts |-> <<>>]

NextConcRuns ==
  \/ \E p \in Procs : CR_SetNX(p, RunInput(RunOf(p), Board1, Job1))
  \/ \E p \in Procs : CR_GetJob(p)
  \/ \E p \in Procs : CR_DelLock(p)
  \/ \E p \in Procs : CR_Pipe(p)
  \/ \E p \in Procs : CR_UjsRead(p)
  \/ \E p \in Procs : CR_UjsWrite(p)
  \/ \E p, q \in Procs, st \in TerminalStatuses : UR_Read(p, RunOf(q), Outcome(st))
  \/ \E p \in Procs : UR_HSet(p)
  \/ \E p \in Procs : UR_SMembers(p)
  \/ \E p \in Procs : UR_HGetAlls(p)
  \/ \E p \in Procs : UR_UjsRead(p)
  \/ \E p \in Procs : UR_UjsWrite(p)
  \/ \E p \in Procs : UR_DelLock(p)
  \/ \E p \in Procs : UR_Final(p)

SpecConcRuns == InitConc /\ [][NextConcRuns]_vars

\* SpecConcRemove: removeJob against concurrent updateJobStatus, createRun
\* and updateRun calls on the same job
NextConcRemove ==
  \/ \E p \in Procs : RJ_Read(p, Board1, Job1)
  \/ \E p \in Procs : RJ_Pipe(p)
  \/ \E p \in Procs : UJS_Read(p, Board1, Job1, "rejected")
  \/ \E p \in Procs : UJS_Write(p)
  \/ \E p \in Procs : CR_SetNX(p, RunInput(RunOf(p), Board1, Job1))
  \/ \E p \in Procs : CR_GetJob(p)
  \/ \E p \in Procs : CR_DelLock(p)
  \/ \E p \in Procs : CR_Pipe(p)
  \/ \E p \in Procs : CR_UjsRead(p)
  \/ \E p \in Procs : CR_UjsWrite(p)
  \/ \E p \in Procs : UR_Read(p, Run1, Outcome("failed"))
  \/ \E p \in Procs : UR_HSet(p)
  \/ \E p \in Procs : UR_SMembers(p)
  \/ \E p \in Procs : UR_HGetAlls(p)
  \/ \E p \in Procs : UR_UjsRead(p)
  \/ \E p \in Procs : UR_UjsWrite(p)
  \/ \E p \in Procs : UR_DelLock(p)
  \/ \E p \in Procs : UR_Final(p)

SpecConcRemove == InitConc /\ [][NextConcRemove]_vars

\* ───────────── observations used by the properties ─────────────
JobExistsAt(d, b, j) == HasSeq(HGetAll(d, K_job(b, j)), "job_id")

JobStatusAt(d, b, j) ==
  LET data == HGetAll(d, K_job(b, j))
  IN IF "status" \in DOMAIN data THEN data.status ELSE "none"

LockHeldAt(d, b, j) == K_applyLock(b, j) \in DOMAIN d.strs

RunStatusAt(d, r) ==
  LET data == HGetAll(d, K_run(r))
  IN IF "status" \in DOMAIN data THEN data.status ELSE "none"

\* the run ids whose stored record names job (b, j) and is pending or submitted
InFlightAt(d, b, j) ==
  {r \in RunIds : LET data == HGetAll(d, K_run(r))
                  IN /\ HasSeq(data, "run_id")
                     /\ data.board = b /\ data.job_id = j
                     /\ data.status \in {"pending", "submitted"}}

IsRun(ret) == "run" \in DOMAIN ret

\* ───────────── properties ─────────────

\* C2: in every reachable state each (board, job_id) has at most one run
\* whose status is pending or submitted.
C2_AtMostOneInFlight ==
  \A b \in Boards, j \in JobIds : Cardinality(InFlightAt(db, b, j)) <= 1

\* C3: after updateRun(run, success | failed) has returned for an existing
\* run, the apply lock of the run's (board, job_id) does not exist, and when
\* the job's status is then discovered or queued a createRun for that job
\* returns a run.
C3_LockReleasedOnTerminal ==
  (/\ last.op = "updateRun"
   /\ last.args.status \in {"success", "failed"}
   /\ ~IsNull(last.ret))
  => LET b == last.ret.board
         j == last.ret.job_id
     IN /\ ~LockHeldAt(db, b, j)
        /\ (JobExistsAt(db, b, j) /\ JobStatusAt(db, b, j) \in {"discovered", "queued"})
             => \A r \in RunIds : IsRun(createRun(db, RunInput(r, b, j), <<>>).ret)

\* C3 witness: a failed run has just been reported, its job is discovered
\* again and claimable.
C3_Witness ==
  /\ last.op = "updateRun"
  /\ last.args.status = "failed"
  /\ ~IsNull(last.ret)
  /\ JobStatusAt(db, last.ret.board, last.ret.job_id) = "discovered"
  /\ ~LockHeldAt(db, last.ret.board, last.ret.job_id)

\* C5: the only job-status changes made by a createRun or updateRun call are
\* discovered -> queued (createRun returning a run), queued -> applied
\* (updateRun success) and queued -> discovered (updateRun failed).
C5_JobStateMachine ==
  [][last'.op \in {"createRun", "updateRun"} =>
       \A b \in Boards, j \in JobIds :
         LET old == JobStatusAt(db, b, j)
             new == JobStatusAt(db', b, j)
         IN old # new =>
              \/ /\ last'.op = "createRun" /\ IsRun(last'.ret)
                 /\ old = "discovered" /\ new = "queued"
              \/ /\ last'.op = "updateRun" /\ last'.args.status = "success"
                 /\ old = "queued" /\ new = "applied"
              \/ /\ last'.op = "updateRun" /\ last'.args.status = "failed"
                 /\ old = "queued" /\ new = "discovered"]_vars

\* C6: under updateRun a run's status changes only along pending -> submitted,
\* pending -> success, pending -> failed, submitted -> success and
\* submitted -> failed; a success or failed run never changes status again.
C6_RunStateMachine ==
  [][last'.op = "updateRun" =>
       \A r \in RunIds :
         LET old == RunStatusAt(db, r)
             new == RunStatusAt(db', r)
         IN old # new =>
              <<old, new>> \in {<<"pending", "submitted">>, <<"pending", "success">>,
                                <<"pending", "failed">>, <<"submitted", "success">>,
                                <<"submitted", "failed">>}]_vars

\* C7: createRun returns Conflict (409) whenever the apply lock exists, also
\* when the job does not exist; NotFound (404) when the lock was free and the
\* job is absent; InvalidState (400) when the lock was free and the job's
\* status is neither discovered nor queued; each is a returned value with its
\* own code, never a throw.
C7_CreateRunErrors ==
  [][last'.op = "createRun" =>
       LET b == last'.args.board
           j == last'.args.job_id
           ret == last'.ret
       IN /\ LockHeldAt(db, b, j) => ret = ErrConflict
          /\ (~LockHeldAt(db, b, j) /\ ~JobExistsAt(db, b, j)) => ret = ErrNotFound
          /\ (/\ ~LockHeldAt(db, b, j)
              /\ JobExistsAt(db, b, j)
              /\ JobStatusAt(db, b, j) \notin {"discovered", "queued"})
               => ret = ErrInvalidState
          /\ "throw" \notin DOMAIN ret
          /\ ~IsRun(ret) => /\ ret.code \in {409, 404, 400}
                            /\ ret.code = 409 <=> LockHeldAt(db, b, j)]_vars

\* C7 witness: a createRun has returned Conflict for a job that does not
\* exist while its lock is held.
C7_Witness ==
  /\ last.op = "createRun"
  /\ last.ret = ErrConflict
  /\ ~JobExistsAt(db, last.args.board, last.args.job_id)
  /\ LockHeldAt(db, last.args.board, last.args.job_id)

\* C10: for a job that is discovered with no lock held, createRun(r1)
\* returns a run and the job becomes queued; createRun(r2) then returns
\* Conflict; updateRun(r1, success) makes the job applied; createRun(r3) then
\* returns InvalidState, creates no run and leaves no apply lock.
C10_Lifecycle ==
  \A b \in Boards, j \in JobIds :
    (JobExistsAt(db, b, j) /\ JobStatusAt(db, b, j) = "discovered" /\ ~LockHeldAt(db, b, j))
    => \A r1, r2, r3 \in RunIds :
         LET s1 == createRun(db, RunInput(r1, b, j), <<>>)
             s2 == createRun(s1.db, RunInput(r2, b, j), <<>>)
             s3 == updateRun(s2.db, r1, [status |-> "success", error |-> "", artifacts |-> <<>>])
             s4 == createRun(s3.db, RunInput(r3, b, j), <<>>)
         IN /\ IsRun(s1.ret) /\ JobStatusAt(s1.db, b, j) = "queued"
            /\ s2.ret = ErrConflict
            /\ JobStatusAt(s3.db, b, j) = "applied"
            /\ s4.ret = ErrInvalidState /\ s4.ret # ErrConflict
            /\ s4.db.hashes = s3.db.hashes /\ s4.db.sets = s3.db.sets
            /\ ~LockHeldAt(s4.db, b, j)

\* C10 witness: the scenario has run to its end, the last createRun was
\* refused with InvalidState on the applied job whose run succeeded.
C10_Witness ==
  /\ last.op = "createRun"
  /\ last.ret = ErrInvalidState
  /\ JobStatusAt(db, last.args.board, last.args.job_id) = "applied"
  /\ ~LockHeldAt(db, last.args.board, last.args.job_id)
  /\ \E r \in RunIds : r # last.args.run_id /\ RunStatusAt(db, r) = "success"

\* C9: when updateRun(run, failed) is applied to a run of job (board,
\* job_id), the job becomes discovered if no other run of that same (board,
\* job_id) is pending or submitted and keeps its status if one is; runs of a
\* job on another board do not count.
C9_SiblingRule ==
  [][(/\ last'.op = "updateRun"
      /\ last'.args.status = "failed"
      /\ ~IsNull(last'.ret))
     => LET b == last'.ret.board
            j == last'.ret.job_id
            others == InFlightAt(db, b, j) \ {last'.args.run_id}
        IN JobExistsAt(db, b, j) =>
             IF others = {} THEN JobStatusAt(db', b, j) = "discovered"
             ELSE JobStatusAt(db', b, j) = JobStatusAt(db, b, j)]_vars

\* C4: every existing job's composite key is a member of exactly one status
\* index set, the one of the job's status field.
C4_StatusIndexConsistent ==
  \A b \in Boards, j \in JobIds :
    JobExistsAt(db, b, j) =>
      \A st \in JobStatuses :
        CK(b, j) \in SMembers(db, K_jobStatusIdx(st)) <=> st = JobStatusAt(db, b, j)

\* C1: of the createRun calls for one (board, job_id) that have returned
\* with the apply lock not deleted since their SET NX, at most one returned
\* a run and every other one returned Conflict; if one of them found the
\* lock free, exactly one returned a run.
CreateRunDone(p) ==
  /\ procs[p].pc = "done"
  /\ procs[p].op = "createRun"
  /\ ~procs[p].rel

SameJob(p, q) ==
  /\ procs[p].run.board = procs[q].run.board
  /\ procs[p].run.job_id = procs[q].run.job_id

C1_MutualExclusion ==
  \A p, q \in Procs :
    (p # q /\ CreateRunDone(p) /\ CreateRunDone(q) /\ SameJob(p, q))
    => /\ ~(IsRun(procs[p].ret) /\ IsRun(procs[q].ret))
       /\ IsRun(procs[p].ret) \/ procs[p].ret = ErrConflict
       /\ IsRun(procs[p].ret) => procs[q].ret = ErrConflict
       /\ (procs[p].locked \/ procs[q].locked)
            => (IsRun(procs[p].ret) \/ IsRun(procs[q].ret))

\* C1 witness: two interleaved claims of the job have both returned, one
\* with a run and the other with Conflict, while the first was still running.
C1_Witness ==
  \E p, q \in Procs :
    /\ p # q /\ CreateRunDone(p) /\ CreateRunDone(q) /\ SameJob(p, q)
    /\ IsRun(procs[p].ret)
    /\ procs[q].ret = ErrConflict

\* C8: no run is created for a job whose status is rejected or expired, and
\* createRun never rewrites the status of a job that is rejected or expired
\* when it writes.
C8_NoApplyAfterReject ==
  [][\A p \in Procs :
       LET b == procs[p].run.board
           j == procs[p].run.job_id
       IN /\ (procs[p].pc = "cr_pipe" /\ procs'[p].pc # "cr_pipe")
               => JobStatusAt(db, b, j) \notin {"rejected", "expired"}
          /\ (procs[p].pc = "cr_ujs_write" /\ procs'[p].pc # "cr_ujs_write")
               => JobStatusAt(db, b, j) \notin {"rejected", "expired"}]_vars

\* the stored artifacts of run r: <<>> for JSON null, <<obj>> for an object
ArtifactsAt(d, r) == HGetAll(d, K_run(r)).artifacts

RunExistsAt(d, r) == HasSeq(HGetAll(d, K_run(r)), "run_id")

\* updateRun was just called on a run that existed
UpdateRunStep == last'.op = "updateRun" /\ RunExistsAt(db, last'.args.run_id)

\* S is the additive merge of the stored object A and the update U
IsAdditiveMerge(S, A, U) ==
  LET both == "answers" \in DOMAIN A /\ "answers" \in DOMAIN U
  IN /\ DOMAIN S = DOMAIN A \cup DOMAIN U
     /\ \A k \in DOMAIN A \ DOMAIN U : S[k] = A[k]
     /\ \A k \in DOMAIN U : (k = "answers" /\ both) \/ S[k] = U[k]
     /\ both =>
          /\ DOMAIN S["answers"] = DOMAIN A["answers"] \cup DOMAIN U["answers"]
          /\ \A q \in DOMAIN A["answers"] \ DOMAIN U["answers"] :
               S["answers"][q] = A["answers"][q]
          /\ \A q \in DOMAIN U["answers"] : S["answers"][q] = U["answers"][q]

\* C11: updateRun with artifacts U on a run whose stored artifacts are an
\* object A stores the additive merge of A and U (answers merged key-wise);
\* updateRun without artifacts leaves the stored artifacts as they were
C11_ArtifactMergeAdditive ==
  [][UpdateRunStep =>
       LET r == last'.args.run_id
           U == last'.args.artifacts
       IN IF U = <<>> THEN ArtifactsAt(db', r) = ArtifactsAt(db, r)
          ELSE ArtifactsAt(db, r) # <<>> =>
                 /\ ArtifactsAt(db', r) # <<>>
                 /\ IsAdditiveMerge(ArtifactsAt(db', r)[1], ArtifactsAt(db, r)[1], U[1])]_vars

\* answers {x:1} followed by answers {y:2} gave {x:1, y:2}, resume_url kept
C11_Witness ==
  /\ last.op = "updateRun"
  /\ last.args.artifacts = <<[answers |-> [y |-> "2"]]>>
  /\ RunExistsAt(db, last.args.run_id)
  /\ ArtifactsAt(db, last.args.run_id) =
       <<[resume_url |-> "a", answers |-> [x |-> "1", y |-> "2"]]>>

\* every tag the classifier can produce
TagPool == UNION {{extractTags(TitlePool[i], "")[k] : k \in 1..Len(extractTags(TitlePool[i], ""))} :
                  i \in 1..Len(TitlePool)}

\* the status and tag index sets that hold the composite key of (b, j)
StatusIdxOf(d, b, j) == {s \in JobStatuses : CK(b, j) \in SMembers(d, K_jobStatusIdx(s))}

TagIdxOf(d, b, j) == {t \in TagPool : CK(b, j) \in SMembers(d, K_tagIdx(t))}

\* C12: addJobsBulk leaves every input job that already existed as it was
\* (record, status and tag index memberships) and does not return it; every
\* input job that did not exist is stored with status discovered
C12_BulkSkipsExisting ==
  [][last'.op = "addJobsBulk" =>
       \A i \in 1..Len(last'.args.jobs) :
         LET job == last'.args.jobs[i]
             b == job.board
             j == job.job_id
         IN IF JobExistsAt(db, b, j)
              THEN /\ HGetAll(db', K_job(b, j)) = HGetAll(db, K_job(b, j))
                   /\ StatusIdxOf(db', b, j) = StatusIdxOf(db, b, j)
                   /\ TagIdxOf(db', b, j) = TagIdxOf(db, b, j)
                   /\ \A k \in 1..Len(last'.ret.jobs) :
                        ~(last'.ret.jobs[k].board = b /\ last'.ret.jobs[k].job_id = j)
              ELSE /\ JobStatusAt(db', b, j) = "discovered"
                   /\ \E k \in 1..Len(last'.ret.jobs) :
                        last'.ret.jobs[k].board = b /\ last'.ret.jobs[k].job_id = j]_vars

\* a bulk add of an applied job under another title together with a new job
C12_Witness ==
  /\ last.op = "addJobsBulk"
  /\ Len(last.args.jobs) = 2
  /\ last.args.jobs[1].job_id # last.args.jobs[2].job_id
  /\ Len(last.ret.jobs) = 1
  /\ \E i \in 1..2 :
       LET job == last.args.jobs[i]
       IN /\ JobStatusAt(db, job.board, job.job_id) = "applied"
          /\ HGetAll(db, K_job(job.board, job.job_id)).title # job.title

\* every member of a status index set or of a tag index set
IndexedCKs(d) ==
  UNION ({SMembers(d, K_jobStatusIdx(st)) : st \in JobStatuses}
         \cup {SMembers(d, K_tagIdx(t)) : t \in TagPool})

\* the job hashes stored under board b
JobHashesOf(d, b) == {key \in DOMAIN d.hashes : key[1] = "job" /\ <<key[2]>> = b}

BoardOnly(b) == [board |-> b, status |-> "", tag |-> ""]

\* C13: after removeBoard(B) returned true no status or tag index set holds
\* a composite key of B, no job hash of B exists and listJobs({board: B}) is
\* empty
C13_CascadeComplete ==
  [][(last'.op = "removeBoard" /\ last'.ret.ok) =>
       LET B == last'.args.id
       IN /\ \A ck \in IndexedCKs(db') : SplitBoard(ck) # B
          /\ JobHashesOf(db', B) = {}
          /\ listJobs(db', BoardOnly(B)) = <<>>]_vars

\* the ids of the run records of jobs of board b
RunsOfBoard(d, b) ==
  {<<key[2]>> : key \in {k \in DOMAIN d.hashes : k[1] = "run" /\ d.hashes[k].board = b}}

\* the apply lock keys of jobs of board b
LocksOfBoard(d, b) ==
  {key \in DOMAIN d.strs : key[1] = "lock" /\ key[2] = "apply" /\ <<key[3]>> = b}

\* C14: after removeBoard(B) returned true no run of a job of B is left, as
\* a record or as a member of the job's run set or of the global run set,
\* and no apply lock of a job of B is left
C14_CascadeRunsAndLocks ==
  [][(last'.op = "removeBoard" /\ last'.ret.ok) =>
       LET B == last'.args.id
       IN /\ RunsOfBoard(db', B) = {}
          /\ \A rid \in RunsOfBoard(db, B) :
               /\ rid \notin SMembers(db', K_runsAll)
               /\ rid \notin SMembers(db', K_jobRunsIdx(HGetAll(db, K_run(rid)).job_id))
          /\ LocksOfBoard(db', B) = {}]_vars

\* C15: when the lock of a run that was never updated expires the job is
\* still queued, and a createRun of another run for that job then succeeds
\* and takes the lock; while the lock is held (not expired, not released)
\* every createRun for the job returns Conflict
C15_LockExpiryRecovery ==
  [][/\ (last'.op = "expire" /\ RunStatusAt(db, last'.args.run_id) = "pending") =>
          /\ JobStatusAt(db', last'.args.board, last'.args.job_id) = "queued"
          /\ ~LockHeldAt(db', last'.args.board, last'.args.job_id)
     /\ (/\ last'.op = "createRun"
         /\ last.op = "expire"
         /\ RunStatusAt(db, last.args.run_id) = "pending"
         /\ last'.args.board = last.args.board
         /\ last'.args.job_id = last.args.job_id
         /\ last'.args.run_id # last.args.run_id) =>
          /\ IsRun(last'.ret)
          /\ Get(db', K_applyLock(last'.args.board, last'.args.job_id)) = last'.args.run_id
     /\ (last'.op = "createRun" /\ LockHeldAt(db, last'.args.board, last'.args.job_id)) =>
          /\ last'.ret = ErrConflict
          /\ db' = db]_vars

\* a second run was created for a job whose first run is still pending
C15_Witness ==
  /\ last.op = "createRun"
  /\ IsRun(last.ret)
  /\ \E r \in RunIds :
       /\ r # last.args.run_id
       /\ RunStatusAt(db, r) = "pending"
       /\ HGetAll(db, K_run(r)).job_id = last.args.job_id
       /\ HGetAll(db, K_run(r)).board = last.args.board
       /\ HGetAll(db, K_run(r)).completed_at = ""

\* C16: a terminal updateRun of a run that is not the value of the apply
\* lock of its job changes neither the job's status nor the lock
C16_OnlyLockHolderWrites ==
  [][(/\ UpdateRunStep
      /\ last'.args.status \in {"success", "failed"}) =>
       LET r == last'.args.run_id
           b == HGetAll(db, K_run(r)).board
           j == HGetAll(db, K_run(r)).job_id
       IN Get(db, K_applyLock(b, j)) # r =>
            /\ JobStatusAt(db', b, j) = JobStatusAt(db, b, j)
            /\ Get(db', K_applyLock(b, j)) = Get(db, K_applyLock(b, j))]_vars

\* the body of a POST run names all four required fields
CompleteBody(body) ==
  body.run_id # <<>> /\ body.job_id # <<>> /\ body.board # <<>> /\ body.variant_id # ""

\* C17: POST action "run" answers 201 only with a created run, 409 when the
\* job's lock is held, 400 when the job's status does not permit applying;
\* a createRun error is never answered with 201
C17_HttpRunStatus ==
  [][(last'.op = "POST run" /\ CompleteBody(last'.args)) =>
       LET b == last'.args.board
           j == last'.args.job_id
       IN /\ last'.ret.status = 201 => IsRun(last'.ret.body)
          /\ LockHeldAt(db, b, j) => last'.ret.status = 409
          /\ (/\ ~LockHeldAt(db, b, j)
              /\ JobExistsAt(db, b, j)
              /\ JobStatusAt(db, b, j) \notin APPLICABLE_STATUSES) => last'.ret.status = 400
          /\ "error" \in DOMAIN last'.ret.body => last'.ret.status # 201]_vars

\* C18: addJob of a job that is already stored leaves its status, its tags
\* and its status and tag index memberships as they were
C18_CrawlWriteIdempotent ==
  [][(/\ last'.op = "addJob"
      /\ JobExistsAt(db, last'.args.board, last'.args.job_id)) =>
       LET b == last'.args.board
           j == last'.args.job_id
       IN /\ JobStatusAt(db', b, j) = JobStatusAt(db, b, j)
          /\ HGetAll(db', K_job(b, j)).tags = HGetAll(db, K_job(b, j)).tags
          /\ StatusIdxOf(db', b, j) = StatusIdxOf(db, b, j)
          /\ TagIdxOf(db', b, j) = TagIdxOf(db, b, j)]_vars

\* C19: when createRun returns a run for a job that was discovered or
\* queued with no lock held, the run record is pending with no completed_at
\* and no error, its id is in the job's run set and in the global run set,
\* the job is queued (status field and queued index set) and the apply lock
\* holds the run id
C19_CreateRunPostcondition ==
  [][(/\ last'.op = "createRun"
      /\ IsRun(last'.ret)
      /\ JobStatusAt(db, last'.args.board, last'.args.job_id) \in APPLICABLE_STATUSES
      /\ ~LockHeldAt(db, last'.args.board, last'.args.job_id)) =>
       LET r == last'.args.run_id
           b == last'.args.board
           j == last'.args.job_id
           data == HGetAll(db', K_run(r))
       IN /\ RunExistsAt(db', r)
          /\ data.status = "pending"
          /\ data.completed_at = ""
          /\ data.error = ""
          /\ data.board = b /\ data.job_id = j
          /\ r \in SMembers(db', K_jobRunsIdx(j))
          /\ r \in SMembers(db', K_runsAll)
          /\ JobStatusAt(db', b, j) = "queued"
          /\ "queued" \in StatusIdxOf(db', b, j)
          /\ Get(db', K_applyLock(b, j)) = r]_vars

\* a job whose earlier run failed has been claimed again by a new run
C19_Witness ==
  /\ last.op = "createRun"
  /\ IsRun(last.ret)
  /\ Get(db, K_applyLock(last.args.board, last.args.job_id)) = last.args.run_id
  /\ RunStatusAt(db, last.args.run_id) = "pending"
  /\ \E r \in RunIds : r # last.args.run_id /\ RunStatusAt(db, r) = "failed"

\* C20: a createRun that returns Conflict changes nothing in the store (lock,
\* job record, indexes, run sets); one that returns NotFound or InvalidState
\* creates no run record and no run-index entry, changes no job record and no
\* index, and its lock no longer exists
C20_CreateRunFailureFrame ==
  [][(last'.op = "createRun" /\ ~IsRun(last'.ret)) =>
       LET b == last'.args.board
           j == last'.args.job_id
       IN /\ last'.ret \in {ErrConflict, ErrNotFound, ErrInvalidState}
          /\ db'.hashes = db.hashes
          /\ db'.sets = db.sets
          /\ last'.ret = ErrConflict =>
               /\ LockHeldAt(db, b, j)
               /\ db'.strs = db.strs
          /\ last'.ret # ErrConflict =>
               /\ ~LockHeldAt(db', b, j)
               /\ db'.strs = db.strs]_vars

\* a createRun for a removed job was refused with NotFound: its lock is gone
\* and the run sets hold only the earlier run
C20_Witness ==
  /\ last.op = "createRun"
  /\ last.ret = ErrNotFound
  /\ ~LockHeldAt(db, last.args.board, last.args.job_id)
  /\ ~RunExistsAt(db, last.args.run_id)
  /\ SMembers(db, K_runsAll) # {}
  /\ last.args.run_id \notin SMembers(db, K_runsAll)

\* C21: updateRun with status pending or submitted changes the run record
\* only: every other hash (the job's among them), every index set and every
\* lock is as before
C21_ProgressUpdateFrame ==
  [][(UpdateRunStep /\ last'.args.status \in {"pending", "submitted"}) =>
       LET key == K_run(last'.args.run_id)
       IN /\ db'.strs = db.strs
          /\ db'.sets = db.sets
          /\ DOMAIN db'.hashes = DOMAIN db.hashes
          /\ \A k \in DOMAIN db.hashes \ {key} : db'.hashes[k] = db.hashes[k]]_vars

\* a run that holds the lock of its queued job was reported submitted
C21_Witness ==
  /\ last.op = "updateRun"
  /\ last.args.status = "submitted"
  /\ RunStatusAt(db, last.args.run_id) = "submitted"
  /\ \E b \in Boards, j \in JobIds :
       /\ Get(db, K_applyLock(b, j)) = last.args.run_id
       /\ JobStatusAt(db, b, j) = "queued"

\* C22: updateRun on a run id without a record returns null and leaves the
\* whole store as it was
C22_UpdateUnknownRun ==
  [][(last'.op = "updateRun" /\ ~RunExistsAt(db, last'.args.run_id)) =>
       /\ IsNull(last'.ret)
       /\ db' = db]_vars

\* a terminal update of an unknown run was answered null while another run
\* holds the lock of its queued job
C22_Witness ==
  /\ last.op = "updateRun"
  /\ last.args.status \in {"success", "failed"}
  /\ IsNull(last.ret)
  /\ ~RunExistsAt(db, last.args.run_id)
  /\ \E b \in Boards, j \in JobIds :
       /\ LockHeldAt(db, b, j)
       /\ JobStatusAt(db, b, j) = "queued"

\* the keys of the status index sets
StatusIdxKeys == {K_jobStatusIdx(st) : st \in JobStatuses}

\* C23: updateJobStatus on an absent job returns null and changes nothing;
\* on an existing job it accepts every status, moves the composite key from
\* the old status set to the new one, and changes nothing but the job's
\* status and updated_at: no other field, hash, set or lock
C23_UpdateJobStatusFrame ==
  [][last'.op = "updateJobStatus" =>
       LET b == last'.args.board
           j == last'.args.job_id
           st == last'.args.status
           key == K_job(b, j)
           old == JobStatusAt(db, b, j)
       IN IF ~JobExistsAt(db, b, j)
            THEN IsNull(last'.ret) /\ db' = db
            ELSE /\ ~IsNull(last'.ret)
                 /\ JobStatusAt(db', b, j) = st
                 /\ StatusIdxOf(db', b, j) = (StatusIdxOf(db, b, j) \ {old}) \cup {st}
                 /\ \A f \in DOMAIN db.hashes[key] \ {"status", "updated_at"} :
                      db'.hashes[key][f] = db.hashes[key][f]
                 /\ DOMAIN db'.hashes[key] = DOMAIN db.hashes[key]
                 /\ \A k \in DOMAIN db.hashes \ {key} : db'.hashes[k] = db.hashes[k]
                 /\ DOMAIN db'.hashes = DOMAIN db.hashes
                 /\ \A k \in (DOMAIN db.sets \cup DOMAIN db'.sets) \ StatusIdxKeys :
                      SMembers(db', k) = SMembers(db, k)
                 /\ \A k \in StatusIdxKeys :
                      SMembers(db', k) \ {CK(b, j)} = SMembers(db, k) \ {CK(b, j)}
                 /\ db'.strs = db.strs]_vars

\* an applied job whose run succeeded was set back to discovered by hand
C23_Witness ==
  /\ last.op = "updateJobStatus"
  /\ ~IsNull(last.ret)
  /\ last.args.status = "discovered"
  /\ JobStatusAt(db, last.args.board, last.args.job_id) = "discovered"
  /\ \E r \in RunIds : RunStatusAt(db, r) = "success"

\* every combination of the optional listJobs filters
ListOpts ==
  [board : {<<>>} \cup Boards, status : {""} \cup JobStatuses, tag : {""} \cup TagPool]

\* listJobs(opts) returns a job with this board and job_id
Lists(d, opts, b, j) ==
  \E i \in 1..Len(listJobs(d, opts)) :
    listJobs(d, opts)[i].board = b /\ listJobs(d, opts)[i].job_id = j

\* C24: removeJob on an absent job returns false and changes nothing; on an
\* existing job it returns true, and then getJob returns null, the composite
\* key is in no status or tag index set, the job_id is not in the board's job
\* index and no listJobs call returns the job
C24_RemoveJobComplete ==
  [][last'.op = "removeJob" =>
       LET b == last'.args.board
           j == last'.args.job_id
       IN IF ~JobExistsAt(db, b, j)
            THEN ~last'.ret.ok /\ db' = db
            ELSE /\ last'.ret.ok
                 /\ IsNull(getJob(db', b, j))
                 /\ StatusIdxOf(db', b, j) = {}
                 /\ TagIdxOf(db', b, j) = {}
                 /\ j \notin SMembers(db', K_boardJobsIdx(b))
                 /\ \A opts \in ListOpts : ~Lists(db', opts, b, j)]_vars

\* the stored tags of job (b, j), as a set
TagsAt(d, b, j) ==
  LET tags == HGetAll(d, K_job(b, j)).tags
  IN {tags[i] : i \in 1..Len(tags)}

JobsMatching(d, opts) ==
  {d.hashes[key] : key \in
     {k \in DOMAIN d.hashes :
        /\ k[1] = "job"
        /\ HasSeq(d.hashes[k], "job_id")
        /\ LET b == <<k[2]>>
               j == <<k[3]>>
           IN /\ opts.board # <<>> =>
                   (b = opts.board /\ j \in SMembers(d, K_boardJobsIdx(b)))
              /\ opts.status # "" => CK(b, j) \in SMembers(d, K_jobStatusIdx(opts.status))
              /\ opts.tag # "" => CK(b, j) \in SMembers(d, K_tagIdx(opts.tag))}}

\* the elements of a sequence
Range(seq) == {seq[i] : i \in 1..Len(seq)}

\* C26: for every combination of the filters board, status and tag, listJobs
\* returns exactly the stored jobs that are in the board's job index, the
\* status index set and the tag index set that the filters name
C26_ListJobsFilters ==
  \A opts \in ListOpts : Range(listJobs(db, opts)) = JobsMatching(db, opts)

\* the stored tags of user u, as a set ({} when the user does not exist)
UserTagsAt(d, u) ==
  IF IsNull(getUser(d, u)) THEN {} ELSE Range(getUser(d, u).tags)

\* the stored jobs in the tag index of one of the user's tags and in the
\* index of the target status, of the given board when one is given
JobsForUser(d, u, opts) ==
  LET status == IF opts.status # "" THEN opts.status ELSE "discovered"
  IN {d.hashes[key] : key \in
        {k \in DOMAIN d.hashes :
           /\ k[1] = "job"
           /\ HasSeq(d.hashes[k], "job_id")
           /\ LET b == <<k[2]>>
                  j == <<k[3]>>
              IN /\ \E t \in UserTagsAt(d, u) : CK(b, j) \in SMembers(d, K_tagIdx(t))
                 /\ CK(b, j) \in SMembers(d, K_jobStatusIdx(status))
                 /\ opts.board # <<>> => b = opts.board}}

RunRecords(d) ==
  {parseRunHash(d.hashes[key]) : key \in
     {k \in DOMAIN d.hashes : k[1] = "run" /\ HasSeq(d.hashes[k], "run_id")}}

\* C28: listRuns(job_id) returns exactly the stored runs of that job,
\* listRuns() returns every stored run, and every run of listRuns(job_id) is
\* one of listRuns()
C28_ListRuns ==
  /\ listRuns(db, <<>>) = RunRecords(db)
  /\ \A j \in TwoJobIds :
       /\ listRuns(db, j) = {r \in RunRecords(db) : r.job_id = j}
       /\ listRuns(db, j) \subseteq listRuns(db, <<>>)

\* every caller has completed an updateRun that returned the run
AllUpdated ==
  \A p \in Procs :
    procs[p].pc = "done" /\ procs[p].op = "updateRun" /\ ~IsNull(procs[p].ret)

\* C29: once concurrent updateRun calls on one run, each supplying artifacts
\* with a field of its own, have all completed, the stored artifacts of the
\* run contain the field of every caller
C29_NoLostArtifact ==
  AllUpdated => \A p \in Procs : ArtFieldOf(p) \in DOMAIN ArtifactsAt(db, Run1)[1]

\* C30: whenever no createRun or updateRun call is in progress, the job's
\* composite key is in exactly one status index set, the set of the job's
\* status field
C30_StatusIndexAfterCalls ==
  (\A p \in Procs : Free(p)) =>
    StatusIdxOf(db, Board1, Job1) = {JobStatusAt(db, Board1, Job1)}

\* C31: a POST action "run" that creates a run stores the artifacts of its
\* body on the run, and a PATCH run update that succeeds merges the artifacts
\* of its body into the stored ones, so that GET ?runs_for= shows them
ShownArtifacts(d, jobId, runId) ==
  {run.artifacts : run \in {x \in handleGetRunsFor(d, jobId).body.runs : x.run_id = runId}}

C31_HttpArtifactsReachRun ==
  [][/\ (/\ last'.op = "POST run"
         /\ last'.args.artifacts # <<>>
         /\ IsRun(last'.ret.body))
        => ShownArtifacts(db', last'.args.job_id, last'.args.run_id) = {last'.args.artifacts}
     /\ (/\ last'.op = "PATCH run"
         /\ last'.args.artifacts # <<>>
         /\ last'.ret.status = 200)
        => \A a \in ShownArtifacts(db', last'.ret.body.job_id, last'.args.run_id) :
             /\ a # <<>>
             /\ \A f \in DOMAIN last'.args.artifacts[1] :
                  f \in DOMAIN a[1] /\ a[1][f] = last'.args.artifacts[1][f]]_vars

\* C32: updateRun with artifacts that contain an answers map, on a run
\* stored without artifacts, returns the updated run, whose artifacts are the
\* supplied ones
C32_UpdateRunNullArtifacts ==
  [][(/\ UpdateRunStep
      /\ ArtifactsAt(db, last'.args.run_id) = <<>>
      /\ last'.args.artifacts # <<>>
      /\ "answers" \in DOMAIN last'.args.artifacts[1])
     => /\ "run_id" \in DOMAIN last'.ret
        /\ last'.ret.artifacts = last'.args.artifacts]_vars

\* C33: every stored run has a completed_at timestamp exactly when its
\* status is success or failed
C33_CompletedAtIffTerminal ==
  \A run \in RunRecords(db) :
    (run.completed_at # "") <=> (run.status \in {"success", "failed"})

\* C34: a createRun call whose run_id names an existing run leaves that
\* run's job_id, board, status, completed_at and artifacts as they were, and
\* after any call every run id in a job's run set names a run of that job
IdentityOf(data) ==
  [job_id |-> data.job_id, board |-> data.board, status |-> data.status,
   completed_at |-> data.completed_at, artifacts |-> data.artifacts]

C34_RunIdentityStable ==
  [][/\ (last'.op = "createRun" /\ RunExistsAt(db, last'.args.run_id))
        => IdentityOf(HGetAll(db', K_run(last'.args.run_id)))
             = IdentityOf(HGetAll(db, K_run(last'.args.run_id)))
     /\ \A j \in TwoJobIds : \A rid \in SMembers(db', K_jobRunsIdx(j)) :
          HGetAll(db', K_run(rid)).job_id = j]_vars

\* C35: listJobs with no filter returns every job whose hash exists, also a
\* job added under a board id that addBoard never registered
NoFilter == [board |-> <<>>, status |-> "", tag |-> ""]

C35_ListJobsNoFilterComplete ==
  \A b \in Boards, j \in JobIds :
    JobExistsAt(db, b, j) => Lists(db, NoFilter, b, j)

\* C36: once a removeJob call has removed the job and no call is in
\* progress, no hash exists under the job's key and the job's composite key
\* is in no status index set
Removed(p) ==
  procs[p].pc = "done" /\ procs[p].op = "removeJob" /\ procs[p].ret.ok

C36_RemovedJobStaysRemoved ==
  ((\A p \in Procs : Free(p)) /\ (\E p \in Procs : Removed(p)))
    => /\ K_job(Board1, Job1) \notin DOMAIN db.hashes
       /\ StatusIdxOf(db, Board1, Job1) = {}

\* C37: in the state reached by removeJob(board, job_id) followed by addJob
\* of the same job, createRun for that job succeeds, and updateRun(failed) of
\* the new run then leaves the job discovered
ClaimThenFail(d, r, b, j) ==
  LET claimed == createRun(d, RunInput(r, b, j), <<>>)
      failed == updateRun(claimed.db, r, [status |-> "failed", error |-> "", artifacts |-> <<>>])
  IN /\ IsRun(claimed.ret)
     /\ JobStatusAt(failed.db, b, j) = "discovered"

C37_RemovalClearsLockAndRuns ==
  [][(/\ last.op = "removeJob"
      /\ last.ret.ok
      /\ last'.op = "addJob"
      /\ last'.args.board = last.args.board
      /\ last'.args.job_id = last.args.job_id)
     => \A r \in RunIds : ClaimThenFail(db', r, last'.args.board, last'.args.job_id)]_vars

\* C38: jobs with different (board, job_id) pairs are separate records with
\* separate locks, also when an id contains ':': addJob of one pair changes
\* the record of no other pair and listJobs by board returns the added job
\* under its own board and job_id; createRun of one pair takes the lock of no
\* other pair
OtherPairs(b, j) == {pr \in ColonPairs : pr # <<b, j>>}

RecordOf(d, b, j) ==
  LET data == HGetAll(d, K_job(b, j))
  IN IF HasSeq(data, "job_id") /\ data.board = b /\ data.job_id = j THEN data ELSE <<>>

C38_CompositeIdentityInjective ==
  [][/\ last'.op = "addJob" =>
          /\ \A pr \in OtherPairs(last'.args.board, last'.args.job_id) :
               RecordOf(db', pr[1], pr[2]) = RecordOf(db, pr[1], pr[2])
          /\ Lists(db', BoardOnly(last'.args.board), last'.args.board, last'.args.job_id)
     /\ (last'.op = "createRun" /\ IsRun(last'.ret)) =>
          \A pr \in OtherPairs(last'.args.board, last'.args.job_id) :
            LockHeldAt(db', pr[1], pr[2]) = LockHeldAt(db, pr[1], pr[2])]_vars

\* C39: no request issues a store command on a client on which another
\* request has started quit, and getRedis never returns a client on which
\* quit has been started
C39_NoUseOfClosingClient ==
  \A p \in Procs :
    (procs[p].pc # "idle" /\ procs[p].op = "request")
      => ~procs[p].staleCmd /\ ~procs[p].staleGet

====
